---- MODULE Spec2Model ----
(***************************************************************************)
(* A model of cpymad's Model controller (cern/cpymad/model.py) driving a   *)
(* Madx session (cern/cpymad/madx.py).                                     *)
(*                                                                         *)
(* Every public operation of Model is one action.  The body of an         *)
(* operation is a composition of operators over a record `st' (the fields *)
(* of the Model object, the files on disk, the events of the running call *)
(* and the pending exception), one operator per method of the source.     *)
(* An exception is the field st.err; every operator passes a state with a *)
(* pending exception through unchanged, as Python unwinds the stack.      *)
(*                                                                         *)
(* The engine (libmadx), the file system and the resource locator are     *)
(* the environment.  Each interaction with them is counted (st.n) and the *)
(* interaction numbered st.failAt raises: one call may fail at any one of *)
(* its interactions, or at none.  The engine holds exactly the sequences  *)
(* the model definition declares (the definition's init files load them). *)
(***************************************************************************)
EXTENDS Integers, Sequences, FiniteSets, TLC

(***************************************************************************)
(* Bounds                                                                  *)
(***************************************************************************)
\* number of model-level init files
NumInitFiles == 2

\* the longest list of patterns given to Madx.select
MaxPatterns == 2
\* temporary files of one operation that may be left on disk before the
\* operation is no longer taken without a file name
MaxTmp == 1

\* the calls of a run of one Model
MaxCalls == 2

(***************************************************************************)
(* The model definition (self._mdef), an already-parsed nested mapping.    *)
(***************************************************************************)
Sequences == {"s1", "s2"}

DefaultSequence == "s1"

RangesOf ==
  [s \in Sequences |->
     CASE s = "s1" -> {"r1", "r2"}
       [] OTHER    -> {"r2", "r3"}]

DefaultRange ==
  [s \in Sequences |->
     CASE s = "s1" -> "r1"
       [] OTHER    -> "r3"]

AllRanges == UNION {RangesOf[s] : s \in Sequences}

MadxRange ==
  [r \in AllRanges |->
     CASE r = "r1" -> [first |-> "#s", last |-> "#e"]
       [] r = "r2" -> [first |-> "ip1", last |-> "ip2"]
       [] OTHER    -> [first |-> "ip2", last |-> "ip5"]]

\* ranges whose definition has an 'aper-offset' entry
AperOffset == {"r2"}

BeamOf ==
  [s \in Sequences |->
     CASE s = "s1" -> "b1"
       [] OTHER    -> "b2"]

AperFiles ==
  [s \in Sequences |->
     CASE s = "s1" -> <<"aper1", "aper2">>
       [] OTHER    -> <<"aper3">>]

InitFileNames == <<"init1", "init2", "init3">>

InitFiles == SubSeq(InitFileNames, 1, NumInitFiles)

\* the default 'twiss-initial-conditions' of a range, as the <<key, value>>
\* items of the mapping in the order it iterates them (a value is written as
\* Python prints it), and whether the range has the entry at all
TwissInitial ==
  [r \in AllRanges |->
     CASE r = "r1" -> [declared |-> TRUE,
                       items |-> <<<<"betx", "1.5">>, <<"alfx", "0">>,
                                   <<"Bety", "2.5">>, <<"name", "ip1">>,
                                   <<"chrom", "True">>,
                                   <<"closed-orbit", "True">>>>]
       [] r = "r2" -> [declared |-> FALSE, items |-> <<>>]
       [] OTHER    -> [declared |-> TRUE,
                       items |-> <<<<"betx", "0">>, <<"mux", "False">>,
                                   <<"name", "">>>>]]

Optics == {"o1", "o2"}

DefaultOptic == "o1"

OpticFiles ==
  [o \in Optics |->
     CASE o = "o1" -> <<"str1">>
       [] OTHER    -> <<"str2", "str3">>]

(***************************************************************************)
(* Exceptions and events                                                   *)
(***************************************************************************)
\* an exception: its Python type and the model names its message contains
Err(type, names) == [type |-> type, names |-> names]

NoErr == Err("", {})

Ok(st) == st.err.type = ""

Raise(st, type, names) == [st EXCEPT !.err = Err(type, names)]

\* one event of a call: k is "enter", "resolved", "return", "raise" (the
\* span of a Model method), "input" (a command given to libmadx.input),
\* "query" (a table or list read from the engine), "file", or "hist" (a
\* write to the history file)
Ev(k, c, s, a, b) == [k |-> k, c |-> c, s |-> s, a |-> a, b |-> b]

Emit(st, ev) == [st EXCEPT !.trace = Append(@, ev)]

Enter(st, c, s, a) == Emit(st, Ev("enter", c, s, a, ""))

Leave(st, c) ==
  Emit(st, Ev(IF Ok(st) THEN "return" ELSE "raise", c, "", st.err.type, ""))

\* what a method returns: a table of the engine, the content of a file, a
\* command text, a Sequence, or None
Value(kind, of) == [kind |-> kind, of |-> of]

NoResult == Value("None", "")

Returns(st, value) == IF Ok(st) THEN [st EXCEPT !.result = value] ELSE st

\* the twiss_init argument of a call: None, or the items of a dict
NoneGiven == [tag |-> "none", items |-> <<>>]

DictOf(items) == [tag |-> "map", items |-> items]

\* the Model calls a method of its Madx with the argument twiss_init
Hand(st, to, twiss_init) ==
  IF Ok(st)
  THEN [st EXCEPT !.handed = Append(@, [to |-> to, twiss_init |-> twiss_init])]
  ELSE st

\* the next interaction with the environment is the one that fails
Fails(st) == st.n + 1 = st.failAt

Step(st) == [st EXCEPT !.n = @ + 1]

(***************************************************************************)
(* madx.py: the Session                                                    *)
(***************************************************************************)
TmpNames ==
  [survey   |-> <<"survey.temp.tfs", "survey.0.temp.tfs",
                  "survey.1.temp.tfs", "survey.2.temp.tfs">>,
   aperture |-> <<"aperture.temp.tfs", "aperture.0.temp.tfs",
                  "aperture.1.temp.tfs", "aperture.2.temp.tfs">>,
   match    |-> <<"match.temp.tfs", "match.0.temp.tfs",
                  "match.1.temp.tfs", "match.2.temp.tfs">>]

TmpFilesOf(operation) ==
  {TmpNames[operation][i] : i \in 1..Len(TmpNames[operation])}

\* the loop of _tmp_filename: the first name of the operation not on disk
RECURSIVE TmpLoop(_, _, _)
TmpLoop(disk, operation, i) ==
  IF TmpNames[operation][i] \in disk
  THEN TmpLoop(disk, operation, i + 1)
  ELSE TmpNames[operation][i]

tmp_filename(disk, operation) == TmpLoop(disk, operation, 1)

\* self._libmadx.input(cmd): the engine receives the command; the call may
\* raise
libmadx_input(st, c, s, a, b) ==
  IF ~Ok(st) THEN st
  ELSE LET t == Emit(Step(st), Ev("input", c, s, a, b))
       IN  IF Fails(st) THEN Raise(t, "RuntimeError", {}) ELSE t

\* the commands _madx_tools._checkCommand turns down
Rejected == {"stop", "exit"}

\* _madx_tools._checkCommand
checkCommand(c) == c \notin Rejected

\* Madx._writeHist: the command is appended to the history file; with
\* recursive_history a call command has the lines of the called file
\* appended in its place, and the file may fail to open
writeHist(st, c, s, a, b) ==
  IF ~Ok(st) THEN st
  ELSE IF st.hist = "recursive" /\ c = "call"
       THEN LET t == Emit(Step(st), Ev("file", "open", "", a, ""))
            IN  IF Fails(st) THEN Raise(t, "IOError", {a})
                ELSE Emit(t, Ev("hist", "lines", "", a, ""))
       ELSE Emit(st, Ev("hist", c, s, a, b))

\* Madx._single_cmd, the history: if self._hist
LogCommand(st, c, s, a, b) ==
  IF Ok(st) /\ st.hist # "off" THEN writeHist(st, c, s, a, b) ELSE st

\* Madx._single_cmd, the engine: if _madx_tools._checkCommand(cmd.lower())
ForwardCommand(st, c, s, a, b) ==
  IF checkCommand(c) THEN libmadx_input(st, c, s, a, b) ELSE st

\* the command given to the engine before it is written to the history
single_cmd_input_first(st, c, s, a, b) ==
  LogCommand(ForwardCommand(st, c, s, a, b), c, s, a, b)

\* Madx._single_cmd
single_cmd(st, c, s, a, b) ==
  ForwardCommand(LogCommand(st, c, s, a, b), c, s, a, b)

\* Madx.command for a command the library builds itself: one string
command(st, c, s, a, b) == single_cmd(st, c, s, a, b)

RECURSIVE SingleCmds(_, _)
SingleCmds(st, cmds) ==
  IF cmds = <<>> THEN st
  ELSE SingleCmds(single_cmd(st, Head(cmds).c, "", Head(cmds).a, ""), Tail(cmds))

\* _madx_tools._fixcmd: an int for a command that is not to be executed, or
\* the command, or the list of commands
fixcmd(given) ==
  IF given.kind = "blank" THEN [kind |-> "int", val |-> <<>>] ELSE given

\* Madx.command; given is [kind, val]
Madx_command(st, given) ==
  IF ~Ok(st) THEN st
  ELSE LET cmd == fixcmd(given)
       IN  IF cmd.kind = "int" THEN st
           ELSE IF cmd.kind = "list" THEN SingleCmds(st, cmd.val)
           ELSE single_cmd(st, cmd.val[1].c, "", cmd.val[1].a, "")

RECURSIVE SelectPatterns(_, _, _)
SelectPatterns(st, flag, pattern) ==
  IF pattern = <<>> THEN st
  ELSE SelectPatterns(command(st, "select", flag, "pattern", Head(pattern)),
                      flag, Tail(pattern))

\* the patterns given to the engine before the selection is cleared
select_patterns_first(st, flag, pattern) ==
  LET s1 == SelectPatterns(st, flag, pattern)
      s2 == command(s1, "select", flag, "clear", "")
  IN  command(s2, "select", flag, "column", "")

\* Madx.select
select(st, flag, pattern) ==
  LET s1 == command(st, "select", flag, "clear", "")
      s2 == command(s1, "select", flag, "column", "")
  IN  SelectPatterns(s2, flag, pattern)

use(st, sequence) == command(st, "use", sequence, "", "")

\* Madx.sequence, the getter: self._libmadx.get_current_sequence(), which
\* answers current or raises
get_current_sequence(st, current) ==
  IF ~Ok(st) THEN st
  ELSE LET t == Emit(Step(st), Ev("query", "get_current_sequence", "", current, ""))
       IN  IF Fails(st) THEN Raise(t, "RuntimeError", {}) ELSE t

\* the sequence used whatever the engine's current sequence is
set_current_sequence_always(st, name, current) ==
  use(get_current_sequence(st, current), name)

\* Madx.sequence, the setter
set_current_sequence(st, name, current) ==
  LET q == get_current_sequence(st, current)
  IN  IF Ok(q) /\ current # name THEN use(q, name) ELSE q

\* Madx._get_table: self._libmadx.get_table(table, columns)
get_table(st, table) ==
  IF ~Ok(st) THEN st
  ELSE LET t == Emit(Step(st), Ev("query", "get_table", "", table, ""))
       IN  IF Fails(st) THEN Raise(t, "RuntimeError", {})
           ELSE Returns(t, Value("table", table))

\* a command that names an output file: the engine, once it has received the
\* command, writes the file or not (st.wrote)
EngineWrites(st, fname) ==
  IF fname # "" /\ st.wrote THEN [st EXCEPT !.disk = @ \cup {fname}] ELSE st

command_file(st, c, s, a, b, fname) ==
  IF ~Ok(st) THEN st
  ELSE EngineWrites(command(st, c, s, a, b), fname)

\* _madx_tools._get_dict / _read_knobfile: read a result file back
ReadFile(st, c, fname) ==
  IF ~Ok(st) THEN st
  ELSE LET t == Emit(Step(st), Ev("file", c, "", fname, ""))
       IN  IF fname \notin st.disk THEN Raise(t, "IOError", {fname})
           ELSE IF Fails(st) THEN Raise(t, "ValueError", {})
           ELSE Returns(t, Value("file", c))

\* os.remove(tmpfile)
os_remove(st, fname) ==
  IF ~Ok(st) THEN st
  ELSE Emit([st EXCEPT !.disk = @ \ {fname}], Ev("file", "remove", "", fname, ""))

\* if use and sequence: self.use(sequence)
UseIf(st, useseq, sequence) ==
  IF useseq /\ sequence # "" THEN use(st, sequence) ELSE st

\* if not fname: os.remove(tmpfile)
RemoveIfTmp(st, fname, tmpfile) ==
  IF fname = "" THEN os_remove(st, tmpfile) ELSE st

\* one parameter of a command: key, operator and value, or the bare key
Param(key, op, val) == [key |-> key, op |-> op, val |-> val]

\* Madx.twiss, one entry of twiss_init in the command: nothing for the keys
\* name and closed-orbit, the bare key for the value True
TwissParam(item) ==
  IF item[1] \in {"name", "closed-orbit"} THEN <<>>
  ELSE IF item[2] = "True" THEN <<Param(item[1], "", "")>>
  ELSE <<Param(item[1], "=", item[2])>>

RECURSIVE TwissParams(_)
TwissParams(items) ==
  IF items = <<>> THEN <<>>
  ELSE TwissParam(Head(items)) \o TwissParams(Tail(items))

\* Madx.twiss, the text of its twiss command (_tmpcmd) but for the range,
\* which the event of the command carries: chrom is left at its default
TwissCommand(sequence, fname, twiss_init) ==
  [name   |-> "twiss",
   params |-> <<Param("sequence", "=", sequence), Param("chrom", "", "")>>
                \o (IF fname # "" THEN <<Param("file", "=", fname)>> ELSE <<>>)
                \o TwissParams(twiss_init.items)]

\* Madx.twiss, the sequence named in the command: the one given, or the one
\* the engine answers (current)
AskIfNone(st, sequence, current) ==
  IF sequence = "" THEN get_current_sequence(st, current) ELSE st

\* Madx.twiss, the command built and given to the engine
TwissBuilt(st, stmt, madrange, fname) ==
  IF ~Ok(st) THEN st
  ELSE command_file([st EXCEPT !.text = Append(@, stmt)], "twiss",
                    stmt.params[1].val, madrange.first, madrange.last, fname)

\* the table read before the twiss command is given
Madx_twiss_table_first(st, sequence, current, madrange, fname, useseq, twiss_init) ==
  LET s1 == select(st, "twiss", <<"full">>)
      s2 == command(s1, "set", "", "format", "")
      s3 == AskIfNone(UseIf(s2, useseq, sequence), sequence, current)
      s4 == get_table(s3, "twiss")
  IN  TwissBuilt(s4, TwissCommand(IF sequence = "" THEN current ELSE sequence,
                                  fname, twiss_init),
                 madrange, fname)

\* Madx.twiss; current is what the engine answers when asked for its
\* sequence
Madx_twiss(st, sequence, current, madrange, fname, useseq, twiss_init) ==
  LET s1 == select(st, "twiss", <<"full">>)
      s2 == command(s1, "set", "", "format", "")
      s3 == AskIfNone(UseIf(s2, useseq, sequence), sequence, current)
      s4 == TwissBuilt(s3, TwissCommand(IF sequence = "" THEN current ELSE sequence,
                                        fname, twiss_init),
                       madrange, fname)
  IN  get_table(s4, "twiss")

Madx_survey(st, sequence, madrange, fname, useseq) ==
  IF ~Ok(st) THEN st
  ELSE
  LET tmpfile == IF fname # "" THEN fname ELSE tmp_filename(st.disk, "survey")
      s0 == [st EXCEPT !.tmpfile = tmpfile]
      s1 == select(s0, "survey", <<"full">>)
      s2 == command(s1, "set", "", "format", "")
      s3 == UseIf(s2, useseq, sequence)
      s4 == command_file(s3, "survey", "", madrange.first, madrange.last,
                         tmpfile)
      s5 == ReadFile(s4, "_get_dict", tmpfile)
  IN  RemoveIfTmp(s5, fname, tmpfile)

Madx_aperture(st, sequence, madrange, offsets, fname, useseq) ==
  LET s1 == select(st, "aperture", <<"full">>)
      s2 == command(s1, "set", "", "format", "")
      s3 == UseIf(s2, useseq, sequence)
      s4 == command_file(s3, "aperture", offsets, madrange.first,
                         madrange.last, fname)
  IN  get_table(s4, "aperture")

\* the keys and names of the match requests, in the order Python compares
\* strings
KeyOrder ==
  <<"Bety", "K1", "K2", "alfx", "betx", "bety", "calls", "chrom",
    "closed-orbit", "mux", "name", "range", "step", "tolerance", "upper">>

Rank(k) == CHOOSE i \in DOMAIN KeyOrder : KeyOrder[i] = k

\* a mapping is the sequence of its <<key, value>> items in the order it
\* iterates them; _madx_tools._sorted_items gives them by ascending key
RECURSIVE sorted_items(_)
sorted_items(items) ==
  IF items = <<>> THEN <<>>
  ELSE LET x    == Head(items)
           rest == sorted_items(Tail(items))
           n    == Cardinality({i \in DOMAIN rest : Rank(rest[i][1]) < Rank(x[1])})
       IN  SubSeq(rest, 1, n) \o <<x>> \o SubSeq(rest, n + 1, Len(rest))

\* the parameters of a sequence of (key, operator, value)
Params(items) ==
  [i \in DOMAIN items |-> Param(items[i][1], items[i][2], items[i][3])]

\* the key=value parameters of a mapping
KeyValues(items) == Params(sorted_items(items))

\* one statement of a command text, or the exception met in building it
Built(stmts) == [err |-> "", stmts |-> stmts]

Failed(type) == [err |-> type, stmts |-> <<>>]

Cat(x, y) ==
  IF x.err # "" THEN x
  ELSE IF y.err # "" THEN y
  ELSE Built(x.stmts \o y.stmts)

\* a keyword parameter that is given: its value is not None
IsGiven(item) == item[3] # "None"

\* a parameter whose value is True is a flag: the bare key
Keyword(item) ==
  IF item[3] = "True" THEN Param(item[1], "", "")
  ELSE Param(item[1], item[2], item[3])

\* the keyword parameters of a command, by ascending key
Keywords(kwargs) ==
  LET given == SelectSeq(sorted_items(kwargs), IsGiven)
  IN  [i \in DOMAIN given |-> Keyword(given[i])]

\* _madx_tools._mad_command(name, *args, **kwargs): the positional
\* parameters, then the keyword parameters
mad_command(name, args, kwargs) ==
  Built(<<[name |-> name, params |-> args \o Keywords(kwargs)]>>)

\* _madx_tools._mad_command_unpack(name, entry, **kwargs): entry is a mapping,
\* a sequence of (key, operator, value), a string, or absent; anything else
\* is a TypeError. An entry is [tag, val, items]: the items of a mapping
\* ("map") or of a sequence ("pairs"), the text of a string ("str") or of a
\* number ("num")
mad_command_unpack(name, entry, kwargs) ==
  CASE entry.tag = "map"   -> mad_command(name, KeyValues(entry.items), kwargs)
    [] entry.tag = "pairs" -> mad_command(name, Params(entry.items), kwargs)
    [] entry.tag = "str"   -> mad_command(name, <<Param(entry.val, "", "")>>, kwargs)
    [] entry.tag = "none"  -> mad_command(name, <<>>, kwargs)
    [] OTHER               -> Failed("TypeError")

RECURSIVE Constraints(_)
Constraints(cs) ==
  IF cs = <<>> THEN Built(<<>>)
  ELSE Cat(mad_command_unpack("constraint", Head(cs)[2], <<>>),
           Constraints(Tail(cs)))

\* the vary statement of one item of a mapping
VaryItem(k, v) ==
  LET u == mad_command_unpack("vary", v, <<<<"name", "=", k>>>>)
  IN  IF u.err = "TypeError"
      THEN mad_command("vary", <<>>, <<<<"name", "=", k>>, <<"step", "=", v.val>>>>)
      ELSE u

RECURSIVE VaryItems(_)
VaryItems(items) ==
  IF items = <<>> THEN Built(<<>>)
  ELSE Cat(VaryItem(Head(items)[1], Head(items)[2]), VaryItems(Tail(items)))

\* the vary statement of one entry of a sequence
VaryEntry(v) ==
  IF v.tag = "str" THEN mad_command("vary", <<>>, <<<<"name", "=", v.val>>>>)
  ELSE mad_command_unpack("vary", v, <<>>)

RECURSIVE VaryEntries(_)
VaryEntries(vs) ==
  IF vs = <<>> THEN Built(<<>>)
  ELSE Cat(VaryEntry(Head(vs)[2]), VaryEntries(Tail(vs)))

\* the items of a vary mapping taken in the order the mapping iterates
\* them. vary is [tag, val]: val has the <<key, entry>> items of a mapping
\* ("map") or the <<"", entry>> entries of a sequence ("list")
Vary_unsorted(vary) ==
  CASE vary.tag = "map"  -> VaryItems(vary.val)
    [] vary.tag = "list" -> VaryEntries(vary.val)
    [] OTHER             -> Failed("TypeError")

\* Madx.matchcommand, the vary statements
Vary(vary) ==
  CASE vary.tag = "map"  -> VaryItems(sorted_items(vary.val))
    [] vary.tag = "list" -> VaryEntries(vary.val)
    [] OTHER             -> Failed("TypeError")

\* the weight statement placed after the method statement
matchcommand_method_first(sequence, req, fname) ==
  LET match  == mad_command("match", <<Param("sequence", "=", sequence)>>,
                            req.twiss_init)
      constr == IF req.constraints.tag # "list" THEN Failed("AssertionError")
                ELSE Constraints(req.constraints.val)
      weight == IF req.weight.tag = "none" \/ req.weight.items = <<>>
                THEN Built(<<>>)
                ELSE mad_command_unpack("weight", req.weight, <<>>)
      method == mad_command_unpack(req.method[1], req.method[2], <<>>)
      end    == IF fname # ""
                THEN mad_command("endmatch", <<>>, <<<<"knobfile", "=", fname>>>>)
                ELSE mad_command("endmatch", <<>>, <<>>)
  IN  Cat(match, Cat(constr, Cat(Vary(req.vary), Cat(method, Cat(weight, end)))))

\* Madx.matchcommand: the statements of the text, or the exception raised;
\* req is [constraints, vary, weight, method, twiss_init], the method being
\* <<name, entry>>
matchcommand(sequence, req, fname) ==
  LET match  == mad_command("match", <<Param("sequence", "=", sequence)>>,
                            req.twiss_init)
      constr == IF req.constraints.tag # "list" THEN Failed("AssertionError")
                ELSE Constraints(req.constraints.val)
      weight == IF req.weight.tag = "none" \/ req.weight.items = <<>>
                THEN Built(<<>>)
                ELSE mad_command_unpack("weight", req.weight, <<>>)
      method == mad_command_unpack(req.method[1], req.method[2], <<>>)
      end    == IF fname # ""
                THEN mad_command("endmatch", <<>>, <<<<"knobfile", "=", fname>>>>)
                ELSE mad_command("endmatch", <<>>, <<>>)
  IN  Cat(match, Cat(constr, Cat(Vary(req.vary), Cat(weight, Cat(method, end)))))

\* entries of match requests
Mapping(items) ==
  [tag |-> "map", val |-> "",
   items |-> [i \in DOMAIN items |-> <<items[i][1], "=", items[i][2]>>]]

Triples(items) == [tag |-> "pairs", val |-> "", items |-> items]

Name(name) == [tag |-> "str", val |-> name, items |-> <<>>]

Number(text) == [tag |-> "num", val |-> text, items |-> <<>>]

Absent == [tag |-> "none", val |-> "", items |-> <<>>]

\* a sequence or a mapping of entries, and an object that is neither
List(entries) ==
  [tag |-> "list", val |-> [i \in DOMAIN entries |-> <<"", entries[i]>>]]

Dict(items) == [tag |-> "map", val |-> items]

Other == [tag |-> "other", val |-> <<>>]

\* a match request Madx.matchcommand accepts, and one whose vary is neither
\* a mapping nor a sequence
GoodRequest ==
  [constraints |-> List(<<Mapping(<<<<"betx", "3">>, <<"range", "#e">>>>)>>),
   vary        |-> List(<<Name("K1")>>),
   weight      |-> Absent,
   method      |-> <<"lmdif", Absent>>,
   twiss_init  |-> <<>>]

BadRequest == [GoodRequest EXCEPT !.vary = Other]

\* the outcome of building a text: the text returned, or the exception
Return(st, built) ==
  IF ~Ok(st) THEN st
  ELSE IF built.err # "" THEN Raise(st, built.err, {})
  ELSE Returns([st EXCEPT !.text = @ \o built.stmts], Value("text", ""))

\* a call of Madx.matchcommand
Madx_matchcommand(st, sequence, req, fname) ==
  Return(st, matchcommand(sequence, req, fname))

\* the statements built before the malformed one given to the engine as
\* they are built
Madx_match_streamed(st, sequence, current, fname, req) ==
  IF ~Ok(st) THEN st
  ELSE
  LET tmpfile == IF fname # "" THEN fname ELSE tmp_filename(st.disk, "match")
      s0 == [st EXCEPT !.tmpfile = tmpfile]
      q  == IF sequence = "" THEN get_current_sequence(s0, current) ELSE s0
      s1 == Return(command(q, "match", sequence, "", tmpfile),
                   matchcommand(IF sequence = "" THEN current ELSE sequence,
                                req, tmpfile))
      s2 == command_file(s1, "match", sequence, "", tmpfile, tmpfile)
      s3 == ReadFile(s2, "_read_knobfile", tmpfile)
  IN  RemoveIfTmp(s3, fname, tmpfile)

\* Madx.match; current is what the engine answers when asked for its
\* sequence
Madx_match(st, sequence, current, fname, req) ==
  IF ~Ok(st) THEN st
  ELSE
  LET tmpfile == IF fname # "" THEN fname ELSE tmp_filename(st.disk, "match")
      s0 == [st EXCEPT !.tmpfile = tmpfile]
      q  == IF sequence = "" THEN get_current_sequence(s0, current) ELSE s0
      s1 == Return(q, matchcommand(IF sequence = "" THEN current ELSE sequence,
                                   req, tmpfile))
      s2 == command_file(s1, "match", sequence, "", tmpfile, tmpfile)
      s3 == ReadFile(s2, "_read_knobfile", tmpfile)
  IN  RemoveIfTmp(s3, fname, tmpfile)

\* Madx.call, reached with a file Model.call has found to exist
Madx_call(st, filename) == command(st, "call", "", filename, "")

\* Madx.verbose
verbose(st, switch) ==
  command(st, "option", "", IF switch THEN "echo" ELSE "-echo", "")

(***************************************************************************)
(* model.py: the Model controller                                          *)
(***************************************************************************)
\* an empty name taken as the default range of the active sequence, whatever
\* range is active
set_range_reset(st, madrange) ==
  IF ~Ok(st) THEN st
  ELSE IF madrange # ""
       THEN IF madrange \notin RangesOf[st.active.sequence]
            THEN Raise(st, "NameError", {})
            ELSE [st EXCEPT !.active.range = madrange]
       ELSE [st EXCEPT !.active.range = DefaultRange[st.active.sequence]]

\* Model.set_range; the message of its KeyError is built from the undefined
\* name `seq', so what the raise statement raises is a NameError
set_range(st, madrange) ==
  IF ~Ok(st) THEN st
  ELSE IF madrange # ""
       THEN IF madrange \notin RangesOf[st.active.sequence]
            THEN Raise(st, "NameError", {})
            ELSE [st EXCEPT !.active.range = madrange]
       ELSE IF st.active.range = ""
            THEN [st EXCEPT !.active.range = DefaultRange[st.active.sequence]]
            ELSE st

\* Model.set_sequence, with no sequence given and none active: the default
\* sequence
DefaultIfNone(st, sequence) ==
  IF sequence = "" /\ st.active.sequence = ""
  THEN [st EXCEPT !.active.sequence = DefaultSequence]
  ELSE st

\* Model.set_sequence, the sequence seq looked up and made the active one
Activate(st, seq, madrange) ==
  IF seq \in Sequences
  THEN set_range([st EXCEPT !.active.sequence = seq],
                 IF madrange # "" THEN madrange ELSE DefaultRange[seq])
  ELSE Raise(st, "KeyError", {})

\* the requested name stored before it is looked up
Activate_unchecked(st, seq, madrange) ==
  IF seq \in Sequences
  THEN set_range([st EXCEPT !.active.sequence = seq],
                 IF madrange # "" THEN madrange ELSE DefaultRange[seq])
  ELSE Raise([st EXCEPT !.active.sequence = seq], "KeyError", {})

\* Model.set_sequence, the sequence meant: the one given, or the active one
ActivateMeant(st, sequence, madrange) ==
  Activate(st, IF sequence = "" THEN st.active.sequence ELSE sequence, madrange)

ActivateMeant_unchecked(st, sequence, madrange) ==
  Activate_unchecked(st, IF sequence = "" THEN st.active.sequence ELSE sequence,
                     madrange)

\* set_sequence storing the requested name before it looks it up
set_sequence_unchecked(st, sequence, madrange) ==
  IF ~Ok(st) THEN st
  ELSE ActivateMeant_unchecked(Enter(st, "Model.set_sequence", sequence, madrange),
                               sequence, madrange)

\* Model.set_sequence
set_sequence(st, sequence, madrange) ==
  IF ~Ok(st) THEN st
  ELSE ActivateMeant(DefaultIfNone(Enter(st, "Model.set_sequence", sequence, madrange),
                                   sequence),
                     sequence, madrange)

\* Model._call and Model.call: the file is looked up and, when it exists,
\* handed to Madx.call
Model_call(st, file) ==
  IF ~Ok(st) THEN st
  ELSE LET t == Emit(Step(st), Ev("file", "isfile", "", file, ""))
       IN  IF Fails(st) THEN Raise(t, "ValueError", {file})
           ELSE Madx_call(t, file)

RECURSIVE CallAll(_, _)
CallAll(st, files) ==
  IF files = <<>> THEN st
  ELSE CallAll(Model_call(st, Head(files)), Tail(files))

\* Model.set_optic, its last statement: self._active['optic']=optic
MarkOptic(st, o) ==
  IF Ok(st) THEN [st EXCEPT !.active.optic = o] ELSE st

\* Model.set_optic, the optic o looked up, its init files called
CallOptic(st, o) ==
  IF o \notin Optics THEN Raise(st, "KeyError", {o})
  ELSE MarkOptic(CallAll(st, OpticFiles[o]), o)

\* Model.set_optic, the test of the active optic
CallOpticIfNew(st, o) ==
  IF st.active.optic = o THEN st ELSE CallOptic(st, o)

\* the init files called whether or not the optic is the active one
set_optic_always(st, optic) ==
  IF ~Ok(st) THEN st
  ELSE CallOptic(Enter(st, "Model.set_optic", optic, ""),
                 IF optic = "" THEN DefaultOptic ELSE optic)

\* Model.set_optic
set_optic(st, optic) ==
  IF ~Ok(st) THEN st
  ELSE CallOpticIfNew(Enter(st, "Model.set_optic", optic, ""),
                      IF optic = "" THEN DefaultOptic ELSE optic)

\* Model._get_range_dict, called with a declared sequence: the range it
\* returns is the active range it leaves behind
get_range_dict(st, sequence, madrange) ==
  IF madrange # "" THEN set_range(st, madrange) ELSE st

\* the test of self._apercalled left out
CheckAperCalled_skipped(st, sequence) == st

\* Model.twiss, the test of self._apercalled
CheckAperCalled(st, sequence) ==
  IF ~Ok(st) THEN st
  ELSE IF st.apercalled[sequence] THEN Raise(st, "ValueError", {})
  ELSE st

\* the flag set by every twiss that returns, with a range or without
MarkTwissCalled_any_range(st, sequence, madrange) ==
  IF Ok(st) THEN [st EXCEPT !.twisscalled[sequence] = TRUE] ELSE st

\* the flag assigned on every twiss that returns: set without a range,
\* cleared with one
MarkTwissCalled_assigned(st, sequence, madrange) ==
  IF Ok(st) THEN [st EXCEPT !.twisscalled[sequence] = (madrange = "")] ELSE st

\* Model.twiss, the closing update of self._twisscalled
MarkTwissCalled(st, sequence, madrange) ==
  IF Ok(st) /\ madrange = ""
  THEN [st EXCEPT !.twisscalled[sequence] = TRUE]
  ELSE st

\* the values Python takes as false, as it prints them: 0, 0.0, False, None
\* and the empty string
Falsy == {"0", "0.0", "False", "None", ""}

IsTruthy(item) == item[2] \notin Falsy

\* every declared entry handed on, the false ones as well
TwissInitOf_all(rng) ==
  IF TwissInitial[rng].declared
  THEN DictOf(TwissInitial[rng].items)
  ELSE NoneGiven

\* Model.twiss, twiss_init for the range rng
TwissInitOf(rng) ==
  IF TwissInitial[rng].declared
  THEN DictOf(SelectSeq(TwissInitial[rng].items, IsTruthy))
  ELSE NoneGiven

\* Model.twiss, the call of Madx.twiss on the active sequence and range
TwissActive(st, fname, useseq) ==
  IF Ok(st)
  THEN Madx_twiss(Hand(st, "Madx.twiss", TwissInitOf(st.active.range)),
                  st.active.sequence, "", MadxRange[st.active.range], fname,
                  useseq, TwissInitOf(st.active.range))
  ELSE st

\* Model.twiss once set_sequence has returned
TwissResolved(st, madrange, fname, useseq) ==
  IF ~Ok(st) THEN st
  ELSE MarkTwissCalled(
         TwissActive(
           CheckAperCalled(
             Emit(st, Ev("resolved", "Model.twiss", st.active.sequence,
                         st.active.range, "")),
             st.active.sequence),
           fname, useseq),
         st.active.sequence, madrange)

Model_twiss(st, sequence, madrange, fname, useseq) ==
  IF ~Ok(st) THEN st
  ELSE Leave(TwissResolved(set_sequence(Enter(st, "Model.twiss", sequence, madrange),
                                        sequence, madrange),
                           madrange, fname, useseq),
             "Model.twiss")

\* Model.survey
\* the boundaries given to Madx.survey and Madx.aperture: those of the range
\* _get_range_dict has returned, or none
Boundaries(st, madrange) ==
  IF madrange # "" THEN MadxRange[st.active.range]
  ELSE [first |-> "", last |-> ""]

\* Model.survey, the call of Madx.survey
SurveyActive(st, madrange, fname, useseq) ==
  IF ~Ok(st) THEN st
  ELSE Madx_survey(st, st.active.sequence, Boundaries(st, madrange), fname, useseq)

\* Model.survey once set_sequence has returned
SurveyResolved(st, madrange, fname, useseq) ==
  IF ~Ok(st) THEN st
  ELSE SurveyActive(get_range_dict(st, st.active.sequence, madrange),
                    madrange, fname, useseq)

Model_survey(st, sequence, madrange, fname, useseq) ==
  Leave(SurveyResolved(set_sequence(Enter(st, "Model.survey", sequence, madrange),
                                    sequence, ""),
                       madrange, fname, useseq),
        "Model.survey")

\* the twiss run before every aperture
EnsureTwiss_always(st, sequence) ==
  IF ~Ok(st) THEN st
  ELSE Model_twiss(st, sequence, "", "", TRUE)

\* no twiss run before the aperture
EnsureTwiss_skipped(st, sequence) == st

\* Model.aperture, the twiss it runs first when none has been run
EnsureTwiss(st, sequence) ==
  IF ~Ok(st) THEN st
  ELSE IF ~st.twisscalled[sequence]
       THEN Model_twiss(st, sequence, "", "", TRUE)
       ELSE st

\* Model.aperture, the "basic aperture files" and self._apercalled
MarkAperCalled_all(st, sequence) ==
  IF Ok(st) THEN [st EXCEPT !.apercalled = [s \in Sequences |-> TRUE]] ELSE st

\* the flag left as it is
MarkAperCalled_never(st, sequence) == st

MarkAperCalled(st, sequence) ==
  IF Ok(st) THEN [st EXCEPT !.apercalled[sequence] = TRUE] ELSE st

CallAperFiles(st, sequence) ==
  IF ~Ok(st) \/ st.apercalled[sequence] THEN st
  ELSE MarkAperCalled(CallAll(st, AperFiles[sequence]), sequence)

\* Model.aperture
\* Model.aperture, the call of Madx.aperture
ApertureActive(st, madrange, fname, useseq) ==
  IF ~Ok(st) THEN st
  ELSE Madx_aperture(st, st.active.sequence, Boundaries(st, madrange),
                     IF madrange # "" /\ st.active.range \in AperOffset
                     THEN "offsets" ELSE "",
                     fname, useseq)

\* Model.aperture once set_sequence has returned
ApertureResolved(st, madrange, fname, useseq) ==
  IF ~Ok(st) THEN st
  ELSE ApertureActive(
         get_range_dict(
           CallAperFiles(EnsureTwiss(st, st.active.sequence), st.active.sequence),
           st.active.sequence, madrange),
         madrange, fname, useseq)

Model_aperture(st, sequence, madrange, fname, useseq) ==
  Leave(ApertureResolved(set_sequence(Enter(st, "Model.aperture", sequence, madrange),
                                      sequence, ""),
                         madrange, fname, useseq),
        "Model.aperture")

\* str.lower, on the keys of the initial conditions
lower(key) ==
  CASE key = "Bety" -> "bety"
    [] OTHER        -> key

\* Model.match, is_match_param
MatchParams ==
  {"rmatrix", "chrom", "beta0", "deltap",
   "betx", "alfx", "mux", "x", "px", "dx", "dpx",
   "bety", "alfy", "muy", "y", "py", "dy", "dpy"}

\* the key compared as it is written
is_match_param_exact(item) == item[1] \in MatchParams

is_match_param(item) == lower(item[1]) \in MatchParams

\* Model.match, twiss_init for the range rng
MatchInitOf(rng) ==
  IF TwissInitial[rng].declared
  THEN DictOf(SelectSeq(TwissInitial[rng].items, is_match_param))
  ELSE NoneGiven

\* the keyword parameters **twiss_init of Madx.matchcommand
Kwargs(twiss_init) ==
  [i \in DOMAIN twiss_init.items |->
     <<twiss_init.items[i][1], "=", twiss_init.items[i][2]>>]

\* Model.match, the call of Madx.match
MatchActive(st, fname, varyOk) ==
  Madx_match(Hand(st, "Madx.match", MatchInitOf(st.active.range)),
             st.active.sequence, "", fname,
             [(IF varyOk THEN GoodRequest ELSE BadRequest)
                EXCEPT !.twiss_init = Kwargs(MatchInitOf(st.active.range))])

\* the twiss run before the match
MatchResolved_twiss_first(st, fname, varyOk) ==
  IF ~Ok(st) THEN st
  ELSE MatchActive(Model_twiss(st, st.active.sequence, "", "", TRUE),
                   fname, varyOk)

\* the test of self._apercalled made before the match
MatchResolved_checked(st, fname, varyOk) ==
  IF ~Ok(st) THEN st
  ELSE Model_twiss(MatchActive(CheckAperCalled(st, st.active.sequence),
                               fname, varyOk),
                   st.active.sequence, "", "", TRUE)

\* Model.match once set_sequence has returned
MatchResolved(st, fname, varyOk) ==
  IF ~Ok(st) THEN st
  ELSE Model_twiss(MatchActive(st, fname, varyOk),
                   st.active.sequence, "", "", TRUE)

Model_match(st, sequence, fname, varyOk) ==
  Leave(MatchResolved(set_sequence(Enter(st, "Model.match", sequence, ""),
                                   sequence, ""),
                      fname, varyOk),
        "Model.match")

\* Model._init_sequence for the sequences in the order the mapping yields
RECURSIVE InitSequences(_, _)
InitSequences(st, seqs) ==
  IF seqs = <<>> THEN st
  ELSE InitSequences(command(st, "beam", Head(seqs), BeamOf[Head(seqs)], ""),
                     Tail(seqs))

RECURSIVE SetOptics(_, _)
SetOptics(st, optics) ==
  IF optics = <<>> THEN st
  ELSE SetOptics(set_optic(st, Head(optics)), Tail(optics))

\* Madx.get_sequences, as Model.get_sequences calls it
get_sequences(st) ==
  IF ~Ok(st) THEN st
  ELSE LET t == Emit(Step(st), Ev("query", "get_sequences", "", "", ""))
       IN  IF Fails(st) THEN Raise(t, "RuntimeError", {}) ELSE t

\* Model._setup_initial, the optics given: a str, a list, or neither
SetOpticsGiven(st, optics) ==
  IF optics.kind \in {"str", "list"} THEN SetOptics(st, optics.val) ELSE st

\* Model._setup_initial, the flags of every sequence found in the engine
ClearFlags(st) ==
  IF Ok(st)
  THEN [st EXCEPT !.apercalled = [s \in Sequences |-> FALSE],
                  !.twisscalled = [s \in Sequences |-> FALSE]]
  ELSE st

\* the default sequence activated before the beams are pushed
setup_initial_sequence_first(st, sequence, optics, order) ==
  LET s1 == CallAll(st, InitFiles)
      s2 == set_sequence(s1, sequence, "")
      s3 == InitSequences(s2, order)
      s4 == SetOpticsGiven(s3, optics)
      s5 == get_sequences(s4)
  IN  ClearFlags(s5)

\* Model._setup_initial; optics is [kind, val]: a str (val has one name), a
\* list, or any other object (ignored)
setup_initial(st, sequence, optics, order) ==
  LET s1 == CallAll(st, InitFiles)
      s2 == InitSequences(s1, order)
      s3 == set_sequence(s2, sequence, "")
      s4 == SetOpticsGiven(s3, optics)
      s5 == get_sequences(s4)
  IN  ClearFlags(s5)

\* Model.__init__
\* Model.__init__, self._active
NoneActive(st) ==
  IF Ok(st)
  THEN [st EXCEPT !.active = [optic |-> "", sequence |-> "", range |-> ""]]
  ELSE st

Model_init(st, sequence, optics, order) ==
  LET e  == Enter(st, "Model.__init__", sequence, "")
      s1 == verbose(e, FALSE)
  IN  Leave(setup_initial(NoneActive(s1), sequence, optics, order),
            "Model.__init__")

(***************************************************************************)
(* The state machine                                                       *)
(***************************************************************************)
VARIABLES
  phase,        \* "new", "ready" (constructed) or "failed" (__init__ raised)
  active,       \* self._active
  apercalled,   \* self._apercalled
  twisscalled,  \* self._twisscalled
  disk,         \* the result files in the working directory
  trace,        \* the events of the last call
  last,         \* the last call: its arguments and its outcome
  hist,         \* Madx._hist and Madx._rechist: "off", "on" or "recursive"
  run,          \* one Model over a sequence of calls, with the events of all
  pair          \* two Models side by side, and the engines of their sessions

vars ==
  <<phase, active, apercalled, twisscalled, disk, trace, last, hist, run, pair>>

\* a Model object before __init__ has run, in an empty working directory
Blank ==
  [active |-> [optic |-> "", sequence |-> "", range |-> ""],
   apercalled |-> [s \in Sequences |-> FALSE],
   twisscalled |-> [s \in Sequences |-> FALSE],
   disk |-> {}, trace |-> <<>>, err |-> NoErr, n |-> 0, failAt |-> 0,
   wrote |-> TRUE, tmpfile |-> "", hist |-> "off", text |-> <<>>,
   handed |-> <<>>, result |-> NoResult]

NoRun == [model |-> Blank, calls |-> <<>>]

ModelIds == {1, 2}

\* the fields of a Model object: the session self._madx talks to and whether
\* the Model made it itself, self._active and the two flag maps
NewModel ==
  [phase |-> "new", own |-> FALSE, madx |-> 0,
   active |-> Blank.active, apercalled |-> Blank.apercalled,
   twisscalled |-> Blank.twisscalled]

\* the sessions: 0 is one the caller has made, m the one Model m makes
SessionIds == {0} \cup ModelIds

NoPair ==
  [models |-> [m \in ModelIds |-> NewModel],
   engines |-> [e \in SessionIds |-> <<>>],
   disk |-> {}, by |-> 0]

\* arguments a caller may give
SeqArgs == Sequences \cup {"", "sx"}

RangeArgs == AllRanges \cup {"", "rx"}

OpticArgs == Optics \cup {"", "ox"}

FileArgs == {"", "out.tfs"}

OpticsArgs ==
  {[kind |-> "str", val |-> <<o>>] : o \in OpticArgs}
    \cup {[kind |-> "list", val |-> v] :
            v \in {<<>>, <<"o1", "o2">>, <<"o2", "o2">>, <<"", "ox">>}}
    \cup {[kind |-> "other", val |-> <<>>]}

Orders ==
  {p \in [1..Cardinality(Sequences) -> Sequences] :
     \A i, j \in DOMAIN p : p[i] = p[j] => i = j}

Call(op, sequence, madrange, fname, useseq) ==
  [op |-> op, sequence |-> sequence, madrange |-> madrange, fname |-> fname,
   use |-> useseq, optics |-> <<>>, kind |-> "", args |-> <<>>]

\* the Model object and its surroundings at the start of a call
Start(failAt, wrote) ==
  [active |-> active, apercalled |-> apercalled, twisscalled |-> twisscalled,
   disk |-> disk, trace |-> <<>>, err |-> NoErr, n |-> 0, failAt |-> failAt,
   wrote |-> wrote, tmpfile |-> "", hist |-> hist, text |-> <<>>,
   handed |-> <<>>, result |-> NoResult]

\* what a call leaves behind, whether it returned or raised
Finish(st, call) ==
  /\ active' = st.active
  /\ apercalled' = st.apercalled
  /\ twisscalled' = st.twisscalled
  /\ disk' = st.disk
  /\ trace' = st.trace
  /\ last' = [call |-> call, err |-> st.err, tmpfile |-> st.tmpfile,
              text |-> st.text, handed |-> st.handed,
              result |-> IF Ok(st) THEN st.result ELSE NoResult]
  /\ hist' = hist
  /\ UNCHANGED <<run, pair>>

\* the interactions of a call that meets no failure of the environment: any
\* one of them may be the one that fails (0: none does)
FailPoints(st) == 0..st.n

TmpLeft(operation) == Cardinality(disk \cap TmpFilesOf(operation))

NoCall ==
  [call |-> Call("", "", "", "", FALSE), err |-> NoErr, tmpfile |-> "",
   text |-> <<>>, handed |-> <<>>, result |-> NoResult]

\* no call is waiting for its caller
Idle == last = NoCall

Init ==
  /\ phase = "new"
  /\ active = [optic |-> "", sequence |-> "", range |-> ""]
  /\ apercalled = [s \in Sequences |-> FALSE]
  /\ twisscalled = [s \in Sequences |-> FALSE]
  /\ disk = {}
  /\ trace = <<>>
  /\ last = NoCall
  /\ hist = "off"
  /\ run = NoRun
  /\ pair = NoPair

Construct ==
  /\ phase = "new"
  /\ Idle
  /\ \E sequence \in SeqArgs, optics \in OpticsArgs, order \in Orders :
       \E failAt \in FailPoints(Model_init(Start(0, TRUE), sequence, optics, order)) :
         LET st == Model_init(Start(failAt, TRUE), sequence, optics, order)
         IN  /\ phase' = IF Ok(st) THEN "ready" ELSE "failed"
             /\ Finish(st, [Call("__init__", sequence, "", "", FALSE)
                               EXCEPT !.optics = optics.val])

SetSequence ==
  /\ phase = "ready"
  /\ Idle
  /\ \E sequence \in SeqArgs, madrange \in RangeArgs :
       /\ Finish(set_sequence(Start(0, TRUE), sequence, madrange),
                 Call("set_sequence", sequence, madrange, "", FALSE))
       /\ UNCHANGED phase

SetRange ==
  /\ phase = "ready"
  /\ Idle
  /\ \E madrange \in RangeArgs :
       /\ Finish(set_range(Start(0, TRUE), madrange),
                 Call("set_range", "", madrange, "", FALSE))
       /\ UNCHANGED phase

SetOptic ==
  /\ phase = "ready"
  /\ Idle
  /\ \E optic \in OpticArgs :
      \E failAt \in FailPoints(set_optic(Start(0, TRUE), optic)) :
       /\ Finish(set_optic(Start(failAt, TRUE), optic),
                 Call("set_optic", optic, "", "", FALSE))
       /\ UNCHANGED phase

Twiss ==
  /\ phase = "ready"
  /\ Idle
  /\ \E sequence \in SeqArgs, madrange \in RangeArgs, useseq \in BOOLEAN :
      \E failAt \in FailPoints(Model_twiss(Start(0, TRUE), sequence, madrange, "", useseq)) :
       /\ Finish(Model_twiss(Start(failAt, TRUE), sequence, madrange, "", useseq),
                 Call("twiss", sequence, madrange, "", useseq))
       /\ UNCHANGED phase

Survey ==
  /\ phase = "ready"
  /\ Idle
  /\ \E sequence \in SeqArgs, madrange \in RangeArgs, fname \in FileArgs,
        wrote \in BOOLEAN :
      \E failAt \in FailPoints(Model_survey(Start(0, wrote), sequence, madrange, fname, TRUE)) :
       /\ fname = "" => TmpLeft("survey") < MaxTmp
       /\ Finish(Model_survey(Start(failAt, wrote), sequence, madrange, fname, TRUE),
                 Call("survey", sequence, madrange, fname, TRUE))
       /\ UNCHANGED phase

Aperture ==
  /\ phase = "ready"
  /\ Idle
  /\ \E sequence \in SeqArgs, madrange \in RangeArgs :
      \E failAt \in FailPoints(Model_aperture(Start(0, TRUE), sequence, madrange, "", FALSE)) :
       /\ Finish(Model_aperture(Start(failAt, TRUE), sequence, madrange, "", FALSE),
                 Call("aperture", sequence, madrange, "", FALSE))
       /\ UNCHANGED phase

\* the field `use' of a match call records whether vary is well-formed
Match ==
  /\ phase = "ready"
  /\ Idle
  /\ \E sequence \in SeqArgs, fname \in FileArgs, varyOk \in BOOLEAN,
        wrote \in BOOLEAN :
      \E failAt \in FailPoints(Model_match(Start(0, wrote), sequence, fname, varyOk)) :
       /\ fname = "" => TmpLeft("match") < MaxTmp
       /\ Finish(Model_match(Start(failAt, wrote), sequence, fname, varyOk),
                 Call("match", sequence, "", fname, varyOk))
       /\ UNCHANGED phase

\* the caller takes the result of the call, or catches its exception, and
\* goes on; the Model object and the disk stay as the call left them
Collect ==
  /\ ~Idle
  /\ last' = NoCall
  /\ trace' = <<>>
  /\ UNCHANGED <<phase, active, apercalled, twisscalled, disk, hist, run, pair>>

Next ==
  \/ Construct
  \/ SetSequence
  \/ SetRange
  \/ SetOptic
  \/ Twiss
  \/ Survey
  \/ Aperture
  \/ Match
  \/ Collect

Spec == Init /\ [][Next]_vars

\* the commands and lists of commands a caller may give to Madx.command
UserCommands ==
  {[c |-> "show", a |-> ""], [c |-> "call", a |-> "job.madx"],
   [c |-> "stop", a |-> ""]}

CommandArgs ==
  {[kind |-> "str", val |-> <<u>>] : u \in UserCommands}
    \cup {[kind |-> "list", val |-> v] :
            v \in {<<>>} \cup {<<u, w>> : u, w \in UserCommands}}
    \cup {[kind |-> "blank", val |-> <<>>]}

\* a Madx object on its own: Madx.__init__ has opened the history file or
\* not
InitSession ==
  /\ phase = "session"
  /\ active = [optic |-> "", sequence |-> "", range |-> ""]
  /\ apercalled = [s \in Sequences |-> FALSE]
  /\ twisscalled = [s \in Sequences |-> FALSE]
  /\ disk = {}
  /\ trace = <<>>
  /\ last = NoCall
  /\ hist \in {"off", "on", "recursive"}
  /\ run = NoRun
  /\ pair = NoPair

Execute ==
  /\ phase = "session"
  /\ Idle
  /\ \E given \in CommandArgs :
      \E failAt \in FailPoints(Madx_command(Start(0, TRUE), given)) :
       /\ Finish(Madx_command(Start(failAt, TRUE), given),
                 [Call("command", "", "", "", FALSE)
                    EXCEPT !.kind = given.kind, !.args = given.val])
       /\ UNCHANGED phase

\* the flags and the lists of patterns a caller may give to Madx.select
Flags == {"twiss", "survey"}

Patterns == {"p1", "p2"}

PatternArgs ==
  UNION {[1..n -> Patterns] : n \in 0..MaxPatterns}

Select ==
  /\ phase = "session"
  /\ Idle
  /\ \E flag \in Flags, pattern \in PatternArgs :
      \E failAt \in FailPoints(select(Start(0, TRUE), flag, pattern)) :
       /\ Finish(select(Start(failAt, TRUE), flag, pattern),
                 [Call("select", flag, "", "", FALSE) EXCEPT !.args = pattern])
       /\ UNCHANGED phase

\* the sequences defined in the engine
EngineSequences == {"lhcb1", "lhcb2"}

\* Madx.sequence = name, the engine answering current as its sequence
AssignSequence ==
  /\ phase = "session"
  /\ Idle
  /\ \E name \in EngineSequences, current \in EngineSequences :
      \E failAt \in FailPoints(set_current_sequence(Start(0, TRUE), name, current)) :
       /\ Finish(set_current_sequence(Start(failAt, TRUE), name, current),
                 Call("sequence", name, "", "", FALSE))
       /\ UNCHANGED phase

\* Python objects: a str, equal to any str of the same text, and an instance
\* of Sequence, a class that defines no __eq__ and so is equal to itself only
Str(text) == [cls |-> "str", val |-> text, id |-> 0]

SequenceObject(name, id) == [cls |-> "Sequence", val |-> name, id |-> id]

\* x == y
py_eq(x, y) ==
  IF x.cls = "str" /\ y.cls = "str" THEN x.val = y.val
  ELSE x.cls = y.cls /\ x.id = y.id

\* x in list
py_in(x, list) == \E i \in DOMAIN list : py_eq(list[i], x)

\* the names the engine answers to get_sequences, in its order
EngineSequenceNames == <<"lhcb1", "lhcb2">>

\* Madx.get_sequences: a new Sequence for every name
SequenceObjects ==
  [i \in DOMAIN EngineSequenceNames |-> SequenceObject(EngineSequenceNames[i], i)]

\* Madx.get_sequence, the test of a name that is given
FindSequence(st, name) ==
  IF ~Ok(st) THEN st
  ELSE IF ~py_in(Str(name), SequenceObjects)
       THEN Raise(st, "RuntimeError", {name})
       ELSE Returns(st, Value("Sequence", name))

\* Madx.get_sequence
Madx_get_sequence(st, name, current) ==
  IF name # ""
  THEN FindSequence(get_sequences(st), name)
  ELSE Returns(get_current_sequence(st, current), Value("Sequence", current))

\* the names a caller may ask for
SequenceNameArgs == {"", "lhcb1", "lhcb2", "nosuch"}

GetSequence ==
  /\ phase = "session"
  /\ Idle
  /\ \E name \in SequenceNameArgs, current \in EngineSequences :
      \E failAt \in FailPoints(Madx_get_sequence(Start(0, TRUE), name, current)) :
       /\ Finish(Madx_get_sequence(Start(failAt, TRUE), name, current),
                 [Call("get_sequence", name, "", "", FALSE)
                    EXCEPT !.args = <<current>>])
       /\ UNCHANGED phase

\* the twiss_init a caller may give to Madx.twiss
TwissInitGiven ==
  {NoneGiven,
   DictOf(<<>>),
   DictOf(<<<<"betx", "1.5">>, <<"chrom", "True">>>>),
   DictOf(<<<<"name", "ip1">>, <<"mux", "True">>, <<"closed-orbit", "True">>,
            <<"alfx", "0">>>>)}

\* Madx.twiss on the whole sequence, the engine answering lhcb2 when asked
\* for its sequence
SessionTwiss ==
  /\ phase = "session"
  /\ Idle
  /\ \E sequence \in {"", "lhcb1"}, useseq \in BOOLEAN, fname \in FileArgs,
        twiss_init \in TwissInitGiven :
      \E failAt \in FailPoints(Madx_twiss(Start(0, TRUE), sequence, "lhcb2",
                                          MadxRange["r1"], fname, useseq, twiss_init)) :
       /\ Finish(Madx_twiss(Start(failAt, TRUE), sequence, "lhcb2",
                            MadxRange["r1"], fname, useseq, twiss_init),
                 [Call("Madx.twiss", sequence, "", fname, useseq)
                    EXCEPT !.args = <<twiss_init>>])
       /\ UNCHANGED phase

\* the match requests a caller may give
ConstraintArgs ==
  {List(<<>>),
   List(<<Mapping(<<<<"betx", "3">>, <<"range", "#e">>>>)>>),
   List(<<Mapping(<<<<"range", "#e">>, <<"betx", "3">>>>),
          Triples(<<<<"bety", "<", "3">>>>)>>),
   List(<<Triples(<<<<"bety", "<", "3">>>>),
          Mapping(<<<<"betx", "3">>, <<"range", "#e">>>>)>>),
   List(<<Number("7")>>),
   Other}

VaryArgs ==
  {Dict(<<<<"K1", Mapping(<<<<"upper", "3">>>>)>>, <<"K2", Number("1e-06")>>>>),
   Dict(<<<<"K2", Number("1e-06")>>, <<"K1", Mapping(<<<<"upper", "3">>>>)>>>>),
   Dict(<<<<"K2", Triples(<<<<"step", "=", "1e-06">>>>)>>>>),
   List(<<Name("K1"), Mapping(<<<<"name", "K2">>, <<"step", "1e-06">>>>)>>),
   List(<<Mapping(<<<<"step", "1e-06">>, <<"name", "K2">>>>), Name("K1")>>),
   List(<<Name("K1"), Number("7")>>),
   Other}

WeightArgs ==
  {Absent, Mapping(<<>>),
   Mapping(<<<<"betx", "1">>, <<"bety", "2">>>>),
   Mapping(<<<<"bety", "2">>, <<"betx", "1">>>>)}

MethodArgs ==
  {<<"lmdif", Absent>>,
   <<"lmdif", Mapping(<<<<"tolerance", "1e-06">>, <<"calls", "100">>>>)>>}

TwissInitArgs == {<<>>, <<<<"bety", "=", "2">>, <<"betx", "=", "1">>>>}

KnobFileArgs == {"", "knobs.txt"}

MatchRequests ==
  [constraints : ConstraintArgs, vary : VaryArgs, weight : WeightArgs,
   method : MethodArgs, twiss_init : TwissInitArgs]

MatchCommand ==
  /\ phase = "session"
  /\ Idle
  /\ \E sequence \in EngineSequences, req \in MatchRequests, fname \in KnobFileArgs :
       /\ Finish(Madx_matchcommand(Start(0, TRUE), sequence, req, fname),
                 [Call("matchcommand", sequence, "", fname, FALSE)
                    EXCEPT !.args = <<req>>])
       /\ UNCHANGED phase

\* the match requests given to Madx.match
SessionMatchRequests ==
  [constraints : {List(<<Mapping(<<<<"betx", "3">>, <<"range", "#e">>>>)>>),
                  List(<<Number("7")>>)},
   vary : VaryArgs, weight : {Absent}, method : {<<"lmdif", Absent>>},
   twiss_init : {<<>>}]

\* Madx.match, the engine answering lhcb2 when asked for its sequence
SessionMatch ==
  /\ phase = "session"
  /\ Idle
  /\ \E sequence \in {"", "lhcb1"}, req \in SessionMatchRequests,
        fname \in FileArgs, wrote \in BOOLEAN :
      \E failAt \in FailPoints(Madx_match(Start(0, wrote), sequence, "lhcb2", fname, req)) :
       /\ fname = "" => TmpLeft("match") < MaxTmp
       /\ Finish(Madx_match(Start(failAt, wrote), sequence, "lhcb2", fname, req),
                 [Call("Madx.match", sequence, "", fname, FALSE)
                    EXCEPT !.args = <<req>>])
       /\ UNCHANGED phase

NextSession ==
  \/ Execute
  \/ Select
  \/ AssignSequence
  \/ MatchCommand
  \/ SessionMatch
  \/ GetSequence
  \/ SessionTwiss
  \/ Collect

SpecSession == InitSession /\ [][NextSession]_vars

\* the Model object as the next call finds it: the exception of the last
\* call has been caught, the events of the calls so far are kept
NewCall(model, failAt) ==
  [model EXCEPT !.err = NoErr, !.n = 0, !.failAt = failAt, !.tmpfile = "",
                !.text = <<>>, !.handed = <<>>, !.result = NoResult]

\* one call of a run: the sequence it is about, its events run.model.trace[from..to]
\* and its exception
CallOf(op, sequence, model, st) ==
  [op   |-> op,
   s    |-> IF sequence = "" THEN model.active.sequence ELSE sequence,
   from |-> Len(model.trace) + 1,
   to   |-> Len(st.trace),
   err  |-> st.err]

\* a Model constructed without optics, on its default sequence or on s2
InitCalls ==
  /\ phase = "calls"
  /\ active = [optic |-> "", sequence |-> "", range |-> ""]
  /\ apercalled = [s \in Sequences |-> FALSE]
  /\ twisscalled = [s \in Sequences |-> FALSE]
  /\ disk = {}
  /\ trace = <<>>
  /\ last = NoCall
  /\ hist = "off"
  /\ \E sequence \in {"", "s2"} :
       run = [model |-> [Model_init(Blank, sequence,
                                    [kind |-> "other", val |-> <<>>],
                                    <<"s1", "s2">>)
                           EXCEPT !.trace = <<>>],
              calls |-> <<>>]
  /\ pair = NoPair

\* Model.aperture, the next call of the run
RunAperture ==
  /\ phase = "calls"
  /\ Len(run.calls) < MaxCalls
  /\ \E sequence \in {"", "s2"}, madrange \in {"", "r2"} :
      \E failAt \in FailPoints(Model_aperture(NewCall(run.model, 0), sequence,
                                              madrange, "", FALSE)) :
        run' = [model |-> Model_aperture(NewCall(run.model, failAt), sequence,
                                         madrange, "", FALSE),
                calls |-> Append(run.calls,
                                 CallOf("aperture", sequence, run.model,
                                        Model_aperture(NewCall(run.model, failAt),
                                                       sequence, madrange, "", FALSE)))]
  /\ UNCHANGED <<phase, active, apercalled, twisscalled, disk, trace, last, hist, pair>>

\* Model.twiss, the next call of the run
RunTwiss ==
  /\ phase = "calls"
  /\ Len(run.calls) < MaxCalls
  /\ \E sequence \in {"", "s2"}, madrange \in {"", "r2"} :
      \E failAt \in FailPoints(Model_twiss(NewCall(run.model, 0), sequence,
                                           madrange, "", TRUE)) :
        run' = [model |-> Model_twiss(NewCall(run.model, failAt), sequence,
                                      madrange, "", TRUE),
                calls |-> Append(run.calls,
                                 CallOf("twiss", sequence, run.model,
                                        Model_twiss(NewCall(run.model, failAt),
                                                    sequence, madrange, "", TRUE)))]
  /\ UNCHANGED <<phase, active, apercalled, twisscalled, disk, trace, last, hist, pair>>

NextCalls ==
  \/ RunAperture
  \/ RunTwiss

SpecCalls == InitCalls /\ [][NextCalls]_vars

\* Madx.__init__ without a libmadx argument: the session spawns a subprocess
\* of its own, so the Madx the Model m makes is a session no one else has
Madx_init_shared(m) == 0

Madx_init(m) == m

\* Model.__init__, self._madx = madx or Madx(histfile): the session the
\* caller gives, or one the Model makes
SessionOf(m, given) == IF given THEN 0 ELSE Madx_init(m)

\* the commands the engine of a session received through libmadx.input
Received(tr) == LET IsCommand(e) == e.k = "input" IN SelectSeq(tr, IsCommand)

\* the Model m as a call finds it, in the working directory of the process
Load(m, failAt) ==
  [Blank EXCEPT !.active = pair.models[m].active,
                !.apercalled = pair.models[m].apercalled,
                !.twisscalled = pair.models[m].twisscalled,
                !.disk = pair.disk,
                !.failAt = failAt]

\* what a call on the Model m leaves behind: the fields of m, the commands
\* the call gave to the engine of m's session, and the files on disk
Store(m, fields, st) ==
  pair' = [models  |-> [pair.models EXCEPT ![m] =
                          [fields EXCEPT !.active = st.active,
                                         !.apercalled = st.apercalled,
                                         !.twisscalled = st.twisscalled]],
           engines |-> [pair.engines EXCEPT ![fields.madx] = Received(st.trace)],
           disk    |-> st.disk,
           by      |-> m]

\* a call on one of the two Models meets no failure of the environment
\* (0), or its first interaction with the environment fails
PairFailPoints == {0, 1}

InitPair ==
  /\ phase = "pair"
  /\ active = [optic |-> "", sequence |-> "", range |-> ""]
  /\ apercalled = [s \in Sequences |-> FALSE]
  /\ twisscalled = [s \in Sequences |-> FALSE]
  /\ disk = {}
  /\ trace = <<>>
  /\ last = NoCall
  /\ hist = "off"
  /\ run = NoRun
  /\ pair = NoPair

PairFrame ==
  UNCHANGED <<phase, active, apercalled, twisscalled, disk, trace, last, hist, run>>

\* Model(mdata, sequence, madx=...) for the Model m
PairConstruct(m) ==
  /\ phase = "pair"
  /\ pair.models[m].phase = "new"
  /\ \E given \in BOOLEAN, sequence \in {"", "s2"} :
       LET st == Model_init(Load(m, 0), sequence,
                            [kind |-> "other", val |-> <<>>], <<"s1", "s2">>)
       IN  Store(m, [pair.models[m] EXCEPT !.phase = "ready",
                                           !.own = ~given,
                                           !.madx = SessionOf(m, given)], st)
  /\ PairFrame

PairSetSequence(m) ==
  /\ phase = "pair"
  /\ pair.models[m].phase = "ready"
  /\ \E sequence \in {"s1", "s2"}, madrange \in {"", "r2"} :
       Store(m, pair.models[m], set_sequence(Load(m, 0), sequence, madrange))
  /\ PairFrame

PairTwiss(m) ==
  /\ phase = "pair"
  /\ pair.models[m].phase = "ready"
  /\ \E sequence \in {"", "s2"}, failAt \in PairFailPoints :
       Store(m, pair.models[m],
             Model_twiss(Load(m, failAt), sequence, "", "", TRUE))
  /\ PairFrame

PairAperture(m) ==
  /\ phase = "pair"
  /\ pair.models[m].phase = "ready"
  /\ \E sequence \in {"", "s2"}, failAt \in PairFailPoints :
       Store(m, pair.models[m],
             Model_aperture(Load(m, failAt), sequence, "", "", FALSE))
  /\ PairFrame

NextPair ==
  \E m \in ModelIds :
    \/ PairConstruct(m)
    \/ PairSetSequence(m)
    \/ PairTwiss(m)
    \/ PairAperture(m)

SpecPair == InitPair /\ [][NextPair]_vars

TypeOK ==
  /\ phase \in {"new", "ready", "failed", "session", "calls", "pair"}
  /\ hist \in {"off", "on", "recursive"}
  /\ apercalled \in [Sequences -> BOOLEAN]
  /\ twisscalled \in [Sequences -> BOOLEAN]

(***************************************************************************)
(* Reading the events of a call                                            *)
(***************************************************************************)
\* the calls of a Model method in the events tr
Enters(tr, c) == {i \in DOMAIN tr : tr[i].k = "enter" /\ tr[i].c = c}

\* where the call entered at i returns or raises
SpanEnd(tr, i) ==
  CHOOSE j \in (i + 1)..Len(tr) :
    /\ tr[j].c = tr[i].c
    /\ tr[j].k \in {"return", "raise"}
    /\ \A m \in (i + 1)..(j - 1) :
         ~(tr[m].c = tr[i].c /\ tr[m].k \in {"return", "raise"})

\* the commands c given to the engine
Inputs(tr, c) == {i \in DOMAIN tr : tr[i].k = "input" /\ tr[i].c = c}

\* the sequences for which the Model.twiss call entered at i got as far as
\* its test of self._apercalled
ResolvedIn(tr, i) ==
  {tr[m].s : m \in {m \in i..SpanEnd(tr, i) : tr[m].k = "resolved"}}

\* the sequence a call is about, given its sequence argument
ResolveArg(sequence) == IF sequence = "" THEN active.sequence ELSE sequence

Range(f) == {f[i] : i \in DOMAIN f}

(***************************************************************************)
(* Claims                                                                  *)
(***************************************************************************)
\* C1: once aperture has been called on a sequence (its _apercalled flag is
\* set), every Model.twiss that resolves to that sequence raises, gives the
\* engine nothing between its entry and its raise, and leaves both flag maps
\* as they were.
TwissAfterApertureFails ==
  [][\A i \in Enters(trace', "Model.twiss") :
       (\E s \in ResolvedIn(trace', i) : apercalled[s]) =>
         /\ trace'[SpanEnd(trace', i)].k = "raise"
         /\ \A m \in i..SpanEnd(trace', i) :
              trace'[m].k \notin {"input", "query", "file"}
         /\ apercalled' = apercalled
         /\ twisscalled' = twisscalled]_vars

WitnessTwissAfterAperture ==
  /\ last.call.op = "twiss"
  /\ last.err.type = "ValueError"
  /\ apercalled[active.sequence]
  /\ Len(trace) > 0

\* C2: once the Model is constructed the active range is one of the ranges
\* declared for the active sequence, also after a call that raised.
ActiveRangeDeclared ==
  phase = "ready" =>
    /\ active.sequence \in Sequences
    /\ active.range \in RangesOf[active.sequence]

\* C3: once the Model is constructed the active sequence is a declared
\* sequence, whatever calls were made and whether they raised.
ActiveSequenceDeclared ==
  phase = "ready" => active.sequence \in Sequences

WitnessUndeclaredSequenceRejected ==
  /\ phase = "ready"
  /\ last.call.op \in {"set_sequence", "twiss", "survey", "aperture", "match"}
  /\ last.call.sequence = "sx"
  /\ last.err.type = "KeyError"

\* the events of the aperture stage of Model.aperture: the aperture init
\* files of the sequence and the commands of Madx.aperture
AperEvents(tr, s) ==
  {i \in DOMAIN tr :
     \/ tr[i].k = "input" /\ tr[i].c = "aperture"
     \/ tr[i].k = "input" /\ tr[i].c = "select" /\ tr[i].s = "aperture"
     \/ tr[i].k \in {"input", "file"} /\ tr[i].a \in Range(AperFiles[s])}

\* C4: Model.aperture on a sequence s whose _twisscalled flag is unset runs
\* exactly one Model.twiss, on s and without a range, before any aperture
\* init file or aperture command, and the flag is set by it (it stays unset
\* only if that twiss raised, and then nothing of the aperture stage runs);
\* with the flag set, Model.aperture runs no twiss.
ApertureRunsTwissOnce ==
  [][(last'.call.op = "aperture" /\ ResolveArg(last'.call.sequence) \in Sequences) =>
       LET s  == ResolveArg(last'.call.sequence)
           tw == Enters(trace', "Model.twiss")
       IN  IF ~twisscalled[s]
           THEN /\ Cardinality(tw) = 1
                /\ \A i \in tw :
                     /\ trace'[i].s = s
                     /\ trace'[i].a = ""
                     /\ \A m \in AperEvents(trace', s) : m > SpanEnd(trace', i)
                     /\ twisscalled'[s] <=> trace'[SpanEnd(trace', i)].k = "return"
                     /\ trace'[SpanEnd(trace', i)].k = "return" =>
                          /\ Cardinality(Inputs(trace', "twiss")) = 1
                          /\ \A m \in Inputs(trace', "twiss") :
                               /\ m \in i..SpanEnd(trace', i)
                               /\ trace'[m].s = s
                /\ AperEvents(trace', s) # {} => twisscalled'[s]
           ELSE /\ tw = {}
                /\ Inputs(trace', "twiss") = {}
                /\ twisscalled'[s]]_vars

WitnessApertureRunsTwiss ==
  /\ last.call.op = "aperture"
  /\ last.err = NoErr
  /\ Enters(trace, "Model.twiss") # {}
  /\ Inputs(trace, "aperture") # {}
  /\ twisscalled[active.sequence]

\* C5: survey and match called without a file name leave the temporary
\* file they named for the engine off the disk, whether they return or
\* raise; a file the caller named is still there after a successful call.
TempFileGone ==
  (last.call.op \in {"survey", "match"} /\ last.tmpfile # "") =>
    IF last.call.fname = ""
    THEN last.tmpfile \notin disk
    ELSE last.err = NoErr => last.call.fname \in disk

\* C6: a Model.aperture call sets the _apercalled flag of a sequence only
\* if the call returns; a call that raises leaves the flag unset.
AperFlagOnlyOnSuccess ==
  [][last'.call.op = "aperture" =>
       \A s \in Sequences :
         (~apercalled[s] /\ apercalled'[s]) => last'.err = NoErr]_vars

\* C7: a call sets the _twisscalled flag of a sequence exactly when a
\* Model.twiss without a range argument resolves to that sequence and
\* returns (Madx.twiss has given its table); a twiss with a range, or one
\* that raises, leaves the flag as it was.
TwissFlagRule ==
  [][\A s \in Sequences :
       twisscalled'[s] <=>
         \/ twisscalled[s]
         \/ \E i \in Enters(trace', "Model.twiss") :
              /\ trace'[i].a = ""
              /\ s \in ResolvedIn(trace', i)
              /\ trace'[SpanEnd(trace', i)].k = "return"
              /\ \E m \in i..SpanEnd(trace', i) :
                   trace'[m].k = "query" /\ trace'[m].a = "twiss"]_vars

WitnessRangedTwissLeavesFlag ==
  /\ last.call.op = "twiss"
  /\ last.call.madrange # ""
  /\ last.err = NoErr
  /\ ~twisscalled[active.sequence]

\* C8: a flag of _twisscalled or _apercalled that is set stays set over
\* every call, returning or raising.
FlagsMonotonic ==
  [][\A s \in Sequences :
       /\ twisscalled[s] => twisscalled'[s]
       /\ apercalled[s] => apercalled'[s]]_vars

WitnessFlagsKept ==
  /\ last.call.op = "twiss"
  /\ last.call.madrange # ""
  /\ last.err = NoErr
  /\ twisscalled[active.sequence]
  /\ ~apercalled[active.sequence]

\* the commands that call the files fs, in the order given
CallsOf(tr, fs) ==
  LET IsCall(e) == e.k = "input" /\ e.c = "call" /\ e.a \in Range(fs)
      calls == SelectSeq(tr, IsCall)
  IN  [i \in DOMAIN calls |-> calls[i].a]

\* the optics Model.set_optic was called with, in the order of the calls
OpticsSet(tr) ==
  LET IsSetOptic(e) == e.k = "enter" /\ e.c = "Model.set_optic"
      calls == SelectSeq(tr, IsSetOptic)
  IN  [i \in DOMAIN calls |-> calls[i].s]

IsPrefix(p, q) == Len(p) <= Len(q) /\ p = SubSeq(q, 1, Len(p))

UndeclaredSequenceNamed ==
  [][(last'.call.op = "set_sequence" /\ last'.call.sequence \notin Sequences \cup {""}) =>
       /\ last'.err.type = "KeyError"
       /\ last'.call.sequence \in last'.err.names
       /\ active' = active]_vars

\* C11: a Model.twiss given neither a sequence nor a range runs on the
\* active sequence and the active range: the twiss command it gives the
\* engine carries the boundaries of the range that was active when it was
\* called, and that range is still the active one afterwards.
TwissKeepsActiveRange ==
  [][(/\ last'.call.op = "twiss"
      /\ last'.call.sequence = ""
      /\ last'.call.madrange = ""
      /\ active.range \in RangesOf[active.sequence]) =>
       /\ active'.range = active.range
       /\ \A m \in Inputs(trace', "twiss") :
            /\ trace'[m].s = active.sequence
            /\ trace'[m].a = MadxRange[active.range].first
            /\ trace'[m].b = MadxRange[active.range].last]_vars

\* C12: Model.set_range with an empty name returns without an error and
\* keeps the active range when one is set, otherwise makes the default range
\* of the active sequence the active one; nothing else changes, and a second
\* set_range with an empty name changes nothing.
EmptyRangeKeeps ==
  [][(last'.call.op = "set_range" /\ last'.call.madrange = "") =>
       /\ last'.err = NoErr
       /\ active' = IF active.range # "" THEN active
                    ELSE [active EXCEPT !.range = DefaultRange[active.sequence]]
       /\ set_range([Start(0, TRUE) EXCEPT !.active = active'], "").active
            = active'
       /\ UNCHANGED <<apercalled, twisscalled, disk>>]_vars

WitnessEmptyRangeKept ==
  /\ last.call.op = "set_range"
  /\ last.call.madrange = ""
  /\ last.err = NoErr
  /\ active.range # ""
  /\ active.range # DefaultRange[active.sequence]

\* C13: Model.set_range with a non-empty name that is not a range of the
\* active sequence raises a KeyError and leaves the active range (and the
\* rest of the active state) as it was.
UndeclaredRangeKeyError ==
  [][(/\ last'.call.op = "set_range"
      /\ last'.call.madrange # ""
      /\ last'.call.madrange \notin RangesOf[active.sequence]) =>
       /\ last'.err.type = "KeyError"
       /\ active' = active]_vars

\* C14: Model.set_optic(o), an empty o standing for the default optic, gives
\* the engine nothing and changes no state when o is the active optic;
\* otherwise it calls the init files of o in declared order and makes o the
\* active optic only when all of them have been called (a call that raises
\* leaves the active optic as it was); a set_optic(o) that follows a
\* successful one calls nothing.
SetOpticOnce ==
  [][last'.call.op = "set_optic" =>
       LET o     == IF last'.call.sequence = "" THEN DefaultOptic
                    ELSE last'.call.sequence
           calls == {i \in DOMAIN trace' : trace'[i].k \in {"input", "file", "query"}}
       IN  /\ UNCHANGED <<apercalled, twisscalled, disk>>
           /\ active'.sequence = active.sequence
           /\ active'.range = active.range
           /\ IF active.optic = o
              THEN /\ calls = {}
                   /\ active' = active
                   /\ last'.err = NoErr
              ELSE IF o \in Optics
              THEN /\ IsPrefix(CallsOf(trace', OpticFiles[o]), OpticFiles[o])
                   /\ Cardinality(Inputs(trace', "call")) = Len(CallsOf(trace', OpticFiles[o]))
                   /\ active'.optic = o <=> last'.err = NoErr
                   /\ active'.optic = o => CallsOf(trace', OpticFiles[o]) = OpticFiles[o]
                   /\ active'.optic # o => active'.optic = active.optic
                   /\ last'.err = NoErr =>
                        set_optic([Start(0, TRUE) EXCEPT !.active = active'],
                                  last'.call.sequence).n = 0
              ELSE /\ calls = {}
                   /\ active' = active
                   /\ last'.err.type = "KeyError"]_vars

WitnessOpticSwitched ==
  /\ last.call.op = "set_optic"
  /\ last.call.sequence = "o2"
  /\ last.err = NoErr
  /\ active.optic = "o2"
  /\ CallsOf(trace, OpticFiles["o2"]) = OpticFiles["o2"]

\* the history writes and the commands given to the engine, in order
HistOf(tr) == LET IsHist(e) == e.k = "hist" IN SelectSeq(tr, IsHist)

InputsOf(tr) ==
  LET IsInput(e) == e.k = "input"
      in == SelectSeq(tr, IsInput)
  IN  [i \in DOMAIN in |-> [c |-> in[i].c, a |-> in[i].a]]

\* the entry of the history file that is the command itself
LoggedVerbatim(cmd) == Ev("hist", cmd.c, "", cmd.a, "")

\* the entry the history file gets for a command
LoggedAs(cmd) ==
  IF hist = "recursive" /\ cmd.c = "call"
  THEN Ev("hist", "lines", "", cmd.a, "")
  ELSE LoggedVerbatim(cmd)

\* C15, as claimed: with the history enabled every command given to
\* Madx.command, alone or in a list, is itself appended to the history file
\* before it is given to the engine; the commands of a list are processed in
\* list order; a command that fails the sanity check is logged and never
\* given to the engine.
ExecuteLogsCommand ==
  last.call.op = "command" =>
    LET cmds == last.call.args
        IsSane(u) == checkCommand(u.c)
    IN  /\ IsPrefix(InputsOf(trace), SelectSeq(cmds, IsSane))
        /\ hist = "off" => HistOf(trace) = <<>>
        /\ hist # "off" =>
             /\ IsPrefix(HistOf(trace), [i \in DOMAIN cmds |-> LoggedVerbatim(cmds[i])])
             /\ \A i \in DOMAIN trace :
                  trace[i].k = "input" =>
                    /\ i > 1
                    /\ trace[i - 1] = LoggedVerbatim(trace[i])
        /\ last.err = NoErr =>
             /\ InputsOf(trace) = SelectSeq(cmds, IsSane)
             /\ hist # "off" => Len(HistOf(trace)) = Len(cmds)

\* C15, amended: as above, except that with a recursive history a call
\* command has the lines of the called file appended in its place.
ExecuteLogsFirst ==
  last.call.op = "command" =>
    LET cmds == last.call.args
        IsSane(u) == checkCommand(u.c)
    IN  /\ IsPrefix(InputsOf(trace), SelectSeq(cmds, IsSane))
        /\ hist = "off" => HistOf(trace) = <<>>
        /\ hist # "off" =>
             /\ IsPrefix(HistOf(trace), [i \in DOMAIN cmds |-> LoggedAs(cmds[i])])
             /\ \A i \in DOMAIN trace :
                  trace[i].k = "input" =>
                    /\ i > 1
                    /\ trace[i - 1] = LoggedAs(trace[i])
        /\ last.err = NoErr =>
             /\ InputsOf(trace) = SelectSeq(cmds, IsSane)
             /\ hist # "off" => Len(HistOf(trace)) = Len(cmds)

WitnessRejectedLogged ==
  /\ last.call.op = "command"
  /\ hist = "recursive"
  /\ last.err = NoErr
  /\ last.call.args = <<[c |-> "call", a |-> "job.madx"], [c |-> "stop", a |-> ""]>>
  /\ Len(HistOf(trace)) = 2
  /\ Len(InputsOf(trace)) = 1

\* the commands given to the engine, in order
InputEvents(tr) == LET IsInput(e) == e.k = "input" IN SelectSeq(tr, IsInput)

\* the commands of a select for flag with the patterns pattern
SelectCommands(flag, pattern) ==
  <<Ev("input", "select", flag, "clear", ""),
    Ev("input", "select", flag, "column", "")>>
    \o [i \in 1..Len(pattern) |-> Ev("input", "select", flag, "pattern", pattern[i])]

\* C16: Madx.select(flag, columns, pattern) gives the engine, in this order,
\* one SELECT CLEAR for flag, one SELECT COLUMN for flag, and one SELECT
\* PATTERN per pattern in the order given, and nothing else; a select cut
\* short by an engine failure has given a prefix of that sequence, so no
\* pattern is given before the clear.
SelectOrder ==
  last.call.op = "select" =>
    LET cmds == SelectCommands(last.call.sequence, last.call.args)
    IN  /\ IsPrefix(InputEvents(trace), cmds)
        /\ last.err = NoErr => InputEvents(trace) = cmds

WitnessSelectTwoPatterns ==
  /\ last.call.op = "select"
  /\ last.call.args = <<"p2", "p1">>
  /\ last.err = NoErr
  /\ Len(InputEvents(trace)) = 4

\* C17: assigning Madx.sequence = name gives the engine one `use` of name,
\* and nothing else, if the engine answers that its current sequence is
\* another one; if the engine answers name, or raises, no command is given.
UseOnlyOnChange ==
  last.call.op = "sequence" =>
    LET name    == last.call.sequence
        answers == {i \in DOMAIN trace : trace[i].k = "query"}
    IN  /\ Cardinality(answers) = 1
        /\ \A i \in answers :
             IF i < Len(trace) \/ last.err = NoErr
             THEN IF trace[i].a # name
                  THEN InputEvents(trace) = <<Ev("input", "use", name, "", "")>>
                  ELSE InputEvents(trace) = <<>>
             ELSE InputEvents(trace) = <<>>

WitnessSameSequenceNoUse ==
  /\ last.call.op = "sequence"
  /\ last.err = NoErr
  /\ \E i \in DOMAIN trace : trace[i].k = "query" /\ trace[i].a = last.call.sequence
  /\ InputEvents(trace) = <<>>

\* the parameters a constraint entry is unpacked to
EntryParams(entry) ==
  IF entry.tag = "map" THEN KeyValues(entry.items) ELSE Params(entry.items)

\* C18: for a match request it accepts, Madx.matchcommand returns, in this
\* order: one match statement with the sequence first and the initial
\* conditions after it; one constraint statement per constraint, in input
\* order; one vary statement per vary entry; one weight statement if and
\* only if a non-empty weight is given; one method statement; one endmatch
\* statement, with knobfile=fname if and only if fname is not empty.
MatchStatementOrder ==
  (last.call.op = "matchcommand" /\ last.err = NoErr) =>
    LET t   == last.text
        req == last.call.args[1]
        nC  == Len(req.constraints.val)
        nV  == Len(req.vary.val)
        nW  == IF req.weight.tag = "none" \/ req.weight.items = <<>> THEN 0 ELSE 1
    IN  /\ Len(t) = 1 + nC + nV + nW + 2
        /\ t[1].name = "match"
        /\ t[1].params = <<Param("sequence", "=", last.call.sequence)>>
                           \o KeyValues(req.twiss_init)
        /\ \A i \in 1..nC :
             /\ t[1 + i].name = "constraint"
             /\ t[1 + i].params = EntryParams(req.constraints.val[i][2])
        /\ \A i \in 1..nV : t[1 + nC + i].name = "vary"
        /\ nW = 1 =>
             /\ t[1 + nC + nV + 1].name = "weight"
             /\ t[1 + nC + nV + 1].params = KeyValues(req.weight.items)
        /\ t[Len(t) - 1].name = req.method[1]
        /\ t[Len(t)].name = "endmatch"
        /\ t[Len(t)].params =
             IF last.call.fname # ""
             THEN <<Param("knobfile", "=", last.call.fname)>>
             ELSE <<>>

WitnessFullMatchText ==
  /\ last.call.op = "matchcommand"
  /\ last.err = NoErr
  /\ last.call.fname = "knobs.txt"
  /\ Len(last.text) = 8
  /\ last.text[6].name = "weight"
  /\ last.text[7].name = "lmdif"
  /\ last.text[8].name = "endmatch"

\* the orders in which a mapping with the items of `items' may iterate them
Orderings(items) ==
  {[i \in DOMAIN items |-> items[p[i]]] :
     p \in {q \in [DOMAIN items -> DOMAIN items] :
              \A i, j \in DOMAIN items : q[i] = q[j] => i = j}}

\* the variable a vary statement names
VaryName(stmt) ==
  LET i == CHOOSE i \in DOMAIN stmt.params : stmt.params[i].key = "name"
  IN  stmt.params[i].val

\* C19: given a mapping as vary, Madx.matchcommand returns the vary
\* statements by ascending key, one per key, and returns the same text for
\* every order in which a mapping with the same items iterates them.
VaryMappingSorted ==
  (/\ last.call.op = "matchcommand"
   /\ last.err = NoErr
   /\ last.call.args[1].vary.tag = "map") =>
    LET req   == last.call.args[1]
        items == req.vary.val
        nC    == Len(req.constraints.val)
        vary  == SubSeq(last.text, nC + 2, nC + 1 + Len(items))
    IN  /\ \A i \in DOMAIN vary : vary[i].name = "vary"
        /\ {VaryName(vary[i]) : i \in DOMAIN vary} = {items[i][1] : i \in DOMAIN items}
        /\ \A i, j \in DOMAIN vary :
             i < j => Rank(VaryName(vary[i])) < Rank(VaryName(vary[j]))
        /\ \A other \in Orderings(items) :
             matchcommand(last.call.sequence, [req EXCEPT !.vary.val = other],
                          last.call.fname).stmts = last.text

WitnessVaryInsertedBackwards ==
  /\ last.call.op = "matchcommand"
  /\ last.err = NoErr
  /\ last.call.args[1].vary.tag = "map"
  /\ Len(last.call.args[1].vary.val) = 2
  /\ last.call.args[1].vary.val[1][1] = "K2"
  /\ last.call.args[1].constraints.val = <<>>
  /\ VaryName(last.text[2]) = "K1"
  /\ VaryName(last.text[3]) = "K2"

\* a match request with a vary that is neither a mapping nor a sequence, or
\* with a number where a vary entry or a constraint is expected
Malformed(req) ==
  \/ req.vary.tag = "other"
  \/ /\ req.vary.tag = "list"
     /\ \E i \in DOMAIN req.vary.val : req.vary.val[i][2].tag = "num"
  \/ /\ req.constraints.tag = "list"
     /\ \E i \in DOMAIN req.constraints.val : req.constraints.val[i][2].tag = "num"

\* C20: Madx.match given a malformed match request raises (a TypeError,
\* unless the engine failed to name its sequence before) without having
\* given the engine any command, and leaves the disk as it was: the
\* temporary knob file it named does not exist.
MalformedMatchSendsNothing ==
  [][(last'.call.op = "Madx.match" /\ Malformed(last'.call.args[1])) =>
       /\ last'.err # NoErr
       /\ (\A i \in DOMAIN trace' : trace'[i].k # "query") =>
            last'.err.type = "TypeError"
       /\ \A i \in DOMAIN trace' : trace'[i].k \notin {"input", "hist", "file"}
       /\ disk' = disk
       /\ last'.call.fname = "" =>
            /\ last'.tmpfile \in TmpFilesOf("match")
            /\ last'.tmpfile \notin disk']_vars

WitnessMalformedVary ==
  /\ last.call.op = "Madx.match"
  /\ last.call.args[1].vary.tag = "other"
  /\ ~Malformed([last.call.args[1] EXCEPT !.vary = List(<<>>)])
  /\ last.call.fname = ""
  /\ last.err.type = "TypeError"
  /\ trace = <<>>
  /\ last.tmpfile \notin disk

\* C21: a Model.match that returns has given the engine its match command
\* for the resolved sequence first and has run one Model.twiss on that same
\* sequence only afterwards; what it returns is the table of that twiss, not
\* the knob values Madx.match has read.
MatchThenTwiss ==
  [][(last'.call.op = "match" /\ last'.err = NoErr) =>
       LET s  == ResolveArg(last'.call.sequence)
           ms == Inputs(trace', "match")
           tw == Enters(trace', "Model.twiss")
       IN  /\ Cardinality(ms) = 1
           /\ Cardinality(tw) = 1
           /\ \A m \in ms : \A i \in tw :
                /\ trace'[m].s = s
                /\ m < i
                /\ ResolvedIn(trace', i) = {s}
                /\ trace'[SpanEnd(trace', i)].k = "return"
                /\ \A t \in Inputs(trace', "twiss") :
                     t > i /\ t < SpanEnd(trace', i) /\ trace'[t].s = s
                /\ Inputs(trace', "twiss") # {}
           /\ last'.result = Value("table", "twiss")]_vars

WitnessMatchReturnsTwiss ==
  /\ last.call.op = "match"
  /\ last.err = NoErr
  /\ last.call.sequence = "s2"
  /\ Inputs(trace, "match") # {}
  /\ last.result = Value("table", "twiss")

\* what the Model has handed to the method `to' of its Madx, call by call
HandedTo(to) ==
  LET IsTo(h) == h.to = to
  IN  SelectSeq(last.handed, IsTo)

\* the entries of the initial conditions of a range whose position is in keep
Entries(rng, keep) ==
  LET items == TwissInitial[rng].items
      Kept(item) == \E i \in keep : items[i] = item
  IN  SelectSeq(items, Kept)

\* C22: what Model.match hands to Madx.match as twiss_init is the mapping of
\* exactly those default initial conditions of the active range whose key,
\* in lower case, is one of rmatrix, chrom, beta0, deltap, betx, alfx, mux,
\* x, px, dx, dpx, bety, alfy, muy, y, py, dy, dpy: any other key is dropped,
\* and an entry of such a key is kept whatever its value, zero included.
MatchInitFiltered ==
  (last.call.op = "match" /\ HandedTo("Madx.match") # <<>>) =>
    LET given == HandedTo("Madx.match")[1].twiss_init
        items == TwissInitial[active.range].items
        keep  == {i \in DOMAIN items :
                    lower(items[i][1]) \in
                      {"rmatrix", "chrom", "beta0", "deltap", "betx", "alfx",
                       "mux", "x", "px", "dx", "dpx", "bety", "alfy", "muy",
                       "y", "py", "dy", "dpy"}}
    IN  /\ Len(HandedTo("Madx.match")) = 1
        /\ TwissInitial[active.range].declared =>
             /\ given.tag = "map"
             /\ given.items = Entries(active.range, keep)

WitnessMatchInitKeepsZero ==
  /\ last.call.op = "match"
  /\ last.err = NoErr
  /\ active.range = "r1"
  /\ HandedTo("Madx.match")[1].twiss_init.items =
       <<<<"betx", "1.5">>, <<"alfx", "0">>, <<"Bety", "2.5">>,
         <<"chrom", "True">>>>

\* the ranges the Model.twiss calls of the last call resolved to, in order
ResolvedRanges ==
  LET IsResolved(e) == e.k = "resolved"
      r == SelectSeq(trace, IsResolved)
  IN  [i \in DOMAIN r |-> r[i].a]

\* C23: what Model.twiss hands to Madx.twiss as twiss_init is the mapping of
\* exactly those default initial conditions of the active range whose value
\* Python takes as true: an entry whose value is 0, False, empty or None is
\* left out; for a range that declares no initial conditions it hands None.
TwissInitTruthy ==
  LET given == HandedTo("Madx.twiss")
      rngs  == ResolvedRanges
  IN  /\ Len(given) <= Len(rngs)
      /\ \A n \in DOMAIN given :
           LET items == TwissInitial[rngs[n]].items
               keep  == {i \in DOMAIN items :
                           items[i][2] \notin {"0", "0.0", "False", "", "None"}}
           IN  IF TwissInitial[rngs[n]].declared
               THEN /\ given[n].twiss_init.tag = "map"
                    /\ given[n].twiss_init.items = Entries(rngs[n], keep)
               ELSE given[n].twiss_init = NoneGiven

WitnessTwissInitAllFalse ==
  /\ last.call.op = "twiss"
  /\ last.err = NoErr
  /\ active.range = "r3"
  /\ HandedTo("Madx.twiss") = <<[to |-> "Madx.twiss", twiss_init |-> DictOf(<<>>)]>>

\* C24: Madx.get_sequence(name) with a name the engine holds a sequence of
\* returns a Sequence of that name, and raises its RuntimeError (unknown
\* sequence) only for a name the engine holds no sequence of; without a name
\* it returns a Sequence of the engine's current sequence.
GetSequenceByName ==
  last.call.op = "get_sequence" =>
    LET name == last.call.sequence
    IN  IF name # ""
        THEN /\ last.err.names # {} => name \notin EngineSequences
             /\ last.err = NoErr => last.result = Value("Sequence", name)
        ELSE last.err = NoErr =>
               last.result = Value("Sequence", last.call.args[1])

\* the commands Madx.twiss gives the engine when nothing fails
TwissCommands(sequence, current, useseq) ==
  SelectCommands("twiss", <<"full">>)
    \o <<Ev("input", "set", "", "format", "")>>
    \o (IF useseq /\ sequence # "" THEN <<Ev("input", "use", sequence, "", "")>>
        ELSE <<>>)
    \o <<Ev("input", "twiss", IF sequence = "" THEN current ELSE sequence,
            MadxRange["r1"].first, MadxRange["r1"].last)>>

\* C30: Madx.twiss gives the engine, in this order, the select commands of
\* the flag twiss, the format command, a use of the sequence if and only if
\* use is asked for and a sequence is named, and one twiss command; it reads
\* the twiss table only after the twiss command (a call cut short by a
\* failure has given a prefix of these commands and read no table before
\* the twiss command). In the twiss command an entry of twiss_init whose
\* value is True is the bare key, and the keys name and closed-orbit do not
\* appear.
TwissCommandOrder ==
  last.call.op = "Madx.twiss" =>
    LET cmds  == TwissCommands(last.call.sequence, "lhcb2", last.call.use)
        given == last.call.args[1].items
    IN  /\ IsPrefix(InputEvents(trace), cmds)
        /\ last.err = NoErr =>
             /\ InputEvents(trace) = cmds
             /\ trace[Len(trace)] = Ev("query", "get_table", "", "twiss", "")
             /\ last.result = Value("table", "twiss")
        /\ \A i \in DOMAIN trace :
             (trace[i].k = "query" /\ trace[i].c = "get_table") =>
               \E m \in 1..(i - 1) : trace[m].k = "input" /\ trace[m].c = "twiss"
        /\ Inputs(trace, "twiss") # {} =>
             /\ Len(last.text) = 1
             /\ last.text[1].name = "twiss"
             /\ \A n \in DOMAIN last.text[1].params :
                  last.text[1].params[n].key \notin {"name", "closed-orbit"}
             /\ \A g \in DOMAIN given :
                  (given[g][2] = "True" /\ given[g][1] \notin {"name", "closed-orbit"}) =>
                    /\ \E n \in DOMAIN last.text[1].params :
                         last.text[1].params[n] = Param(given[g][1], "", "")
                    /\ \A n \in DOMAIN last.text[1].params :
                         last.text[1].params[n].key = given[g][1] =>
                           last.text[1].params[n].op = ""
             /\ \A g \in DOMAIN given :
                  (given[g][2] # "True" /\ given[g][1] \notin {"name", "closed-orbit"}) =>
                    \E n \in DOMAIN last.text[1].params :
                      last.text[1].params[n] = Param(given[g][1], "=", given[g][2])

WitnessTwissFlagsAndUse ==
  /\ last.call.op = "Madx.twiss"
  /\ last.err = NoErr
  /\ last.call.use
  /\ last.call.sequence = "lhcb1"
  /\ Cardinality(Inputs(trace, "use")) = 1
  /\ last.text[1].params =
       <<Param("sequence", "=", "lhcb1"), Param("chrom", "", ""),
         Param("mux", "", ""), Param("alfx", "=", "0")>>

\* C27: in every state of a constructed Model and for every sequence, the
\* _apercalled flag is set only if the _twisscalled flag is set.
AperImpliesTwiss ==
  \A s \in Sequences : apercalled[s] => twisscalled[s]

WitnessBothFlagsSet ==
  /\ phase = "ready"
  /\ last.call.op = "aperture"
  /\ apercalled[active.sequence]
  /\ twisscalled[active.sequence]
  /\ Enters(trace, "Model.twiss") # {}

\* C28: set_sequence, set_range, set_optic and survey leave every flag of
\* _twisscalled and _apercalled as it was; a flag changes only in a twiss,
\* aperture or match call and only for the sequence the call resolved to; so
\* a twiss on a sequence whose own _apercalled flag is unset is not turned
\* down, whatever aperture calls were made on other sequences.
FlagsFrame ==
  [][/\ last'.call.op \in {"set_sequence", "set_range", "set_optic", "survey"} =>
          /\ twisscalled' = twisscalled
          /\ apercalled' = apercalled
     /\ \A B \in Sequences :
          (twisscalled'[B] # twisscalled[B] \/ apercalled'[B] # apercalled[B]) =>
            /\ last'.call.op \in {"twiss", "aperture", "match"}
            /\ B = ResolveArg(last'.call.sequence)
     /\ (/\ last'.call.op = "twiss"
         /\ ResolveArg(last'.call.sequence) \in Sequences
         /\ ~apercalled[ResolveArg(last'.call.sequence)]) =>
          last'.err.type # "ValueError"]_vars

WitnessTwissBesideAperture ==
  /\ last.call.op = "twiss"
  /\ last.err = NoErr
  /\ active.sequence = "s2"
  /\ apercalled["s1"]
  /\ ~apercalled["s2"]
  /\ twisscalled["s2"]

\* C29: a Model.match on a sequence whose _apercalled flag is set never
\* returns; it makes no test before it gives the engine its match command;
\* when it gets as far as its closing twiss it has given the engine the
\* whole match text, endmatch included, and read the knob file, and the
\* twiss raises the ValueError of twiss after aperture with nothing more
\* given to the engine.
MatchAfterAperture ==
  [][(/\ last'.call.op = "match"
      /\ ResolveArg(last'.call.sequence) \in Sequences
      /\ apercalled[ResolveArg(last'.call.sequence)]) =>
       LET s  == ResolveArg(last'.call.sequence)
           ms == Inputs(trace', "match")
       IN  /\ last'.err # NoErr
           /\ last'.result = NoResult
           /\ last'.call.use => Cardinality(ms) = 1
           /\ \A i \in Enters(trace', "Model.twiss") :
                /\ \A m \in ms : m < i /\ trace'[m].s = s
                /\ last'.text[1].name = "match"
                /\ last'.text[Len(last'.text)].name = "endmatch"
                /\ \E f \in 1..(i - 1) :
                     trace'[f].k = "file" /\ trace'[f].c = "_read_knobfile"
                /\ trace'[SpanEnd(trace', i)].k = "raise"
                /\ \A e \in i..SpanEnd(trace', i) :
                     trace'[e].k \notin {"input", "query", "file"}
                /\ last'.err.type = "ValueError"]_vars

WitnessMatchRaisesInTwiss ==
  /\ last.call.op = "match"
  /\ apercalled[active.sequence]
  /\ last.err.type = "ValueError"
  /\ Inputs(trace, "match") # {}
  /\ Enters(trace, "Model.twiss") # {}
  /\ last.text[Len(last.text)].name = "endmatch"

\* the calls of the run that are Model.aperture on the sequence s
ApertureCalls(s) ==
  {k \in DOMAIN run.calls : run.calls[k].op = "aperture" /\ run.calls[k].s = s}

\* the events of call k of the run
SpanOf(k) == run.calls[k].from .. run.calls[k].to

\* the engine is given the call command of the file f
FileCalls(f) ==
  {i \in DOMAIN run.model.trace :
     /\ run.model.trace[i].k = "input"
     /\ run.model.trace[i].c = "call"
     /\ run.model.trace[i].a = f}

\* the interactions of call k with the files and the engine; the last one is
\* the one that raised when the call raised an error of the environment
Interactions(k) ==
  {i \in SpanOf(k) : run.model.trace[i].k \in {"input", "file", "query"}}

\* call k raised in looking up or in executing an aperture init file of s
InitFileFailed(k, s) ==
  /\ run.calls[k].err.type \in {"ValueError", "RuntimeError", "IOError"}
  /\ \E i \in Interactions(k) :
       /\ \A j \in Interactions(k) : j <= i
       /\ run.model.trace[i].c \in {"isfile", "call", "open"}
       /\ run.model.trace[i].a \in Range(AperFiles[s])

\* the Model.twiss that call k ran raised
TwissRaised(k) ==
  \E i \in Enters(run.model.trace, "Model.twiss") \cap SpanOf(k) :
    run.model.trace[SpanEnd(run.model.trace, i)].k = "raise"

\* the file f is executed once, in call k, after a twiss of s and before every
\* aperture command of the aperture calls on s
ExecutedOnceIn(f, k, s) ==
  /\ Cardinality(FileCalls(f)) = 1
  /\ \A i \in FileCalls(f) :
       /\ i \in SpanOf(k)
       /\ \E m \in Inputs(run.model.trace, "twiss") :
            m < i /\ run.model.trace[m].s = s
       /\ \A c \in ApertureCalls(s) :
            \A m \in Inputs(run.model.trace, "aperture") \cap SpanOf(c) : m > i

\* C26 as stated: over the Model.aperture calls on a sequence s, none of
\* which fails in an init file, every aperture init file of s is executed
\* exactly once, in the first of these calls, after the twiss and before the
\* first aperture command.
AperFilesInFirstCall ==
  \A s \in Sequences :
    (ApertureCalls(s) # {} /\ \A k \in ApertureCalls(s) : ~InitFileFailed(k, s)) =>
      \A f \in Range(AperFiles[s]) :
        \E k \in ApertureCalls(s) :
          /\ \A c \in ApertureCalls(s) : k <= c
          /\ ExecutedOnceIn(f, k, s)

\* the aperture calls on s whose twiss, run or memoised, did not raise
PastTwiss(s) == {k \in ApertureCalls(s) : ~TwissRaised(k)}

\* C26: over the Model.aperture calls on a sequence s, none of which fails in
\* an init file, every aperture init file of s is executed at most once; it
\* is executed exactly once when one of the calls gets past its twiss, and
\* then in the first call that does, after the twiss and before the first
\* aperture command; with no such call no file is executed.
AperFilesOnce ==
  \A s \in Sequences :
    (\A k \in ApertureCalls(s) : ~InitFileFailed(k, s)) =>
      \A f \in Range(AperFiles[s]) :
        IF PastTwiss(s) = {}
        THEN FileCalls(f) = {}
        ELSE \E k \in PastTwiss(s) :
               /\ \A c \in PastTwiss(s) : k <= c
               /\ ExecutedOnceIn(f, k, s)

\* the first aperture call on a sequence failed in its twiss and the second
\* one executed the aperture init files
WitnessAperFilesInSecondCall ==
  /\ Len(run.calls) = 2
  /\ ApertureCalls("s1") = {1, 2}
  /\ TwissRaised(1)
  /\ run.calls[2].err = NoErr
  /\ \A f \in Range(AperFiles["s1"]) :
       FileCalls(f) # {} /\ FileCalls(f) \subseteq SpanOf(2)

\* C25: when two Models each own their engine session, a call on one of them
\* leaves the other one's active sequence, range and optic, its _twisscalled
\* and _apercalled flags and the commands received by the engine of its
\* session unchanged, in whatever order the calls on the two Models come.
ModelsIsolated ==
  [][\A m \in ModelIds : \A o \in ModelIds \ {m} :
       (pair' # pair /\ pair'.by = m /\ pair'.models[m].own /\ pair.models[o].own) =>
         /\ pair'.models[o] = pair.models[o]
         /\ pair'.engines[pair.models[o].madx] = pair.engines[pair.models[o].madx]]_vars

\* both Models own their session, each has run a call of its own, and the
\* last call was on Model 2
WitnessTwoOwnSessions ==
  /\ pair.by = 2
  /\ \A m \in ModelIds : pair.models[m].own /\ pair.models[m].phase = "ready"
  /\ pair.models[1].apercalled["s1"]
  /\ ~pair.models[2].apercalled["s1"]
  /\ pair.models[2].twisscalled["s2"]
  /\ pair.models[1].active.sequence # pair.models[2].active.sequence
  /\ pair.engines[1] # <<>>
  /\ pair.engines[2] # <<>>
  /\ pair.engines[1] # pair.engines[2]

====
